---- MODULE Spec2Model ----
(***************************************************************************)
(* A model of the secure-transport layer of SaneDataCommander:             *)
(*   NetworkSecurity        (src/NetworkSocketConnector.py)  rate guard    *)
(*   NetworkSocketConnector (src/NetworkSocketConnector.py)  connect()     *)
(*   SecureDataTransmitter  (src/SecureDataTransmitter.py)   framing/echo  *)
(*   Crypto plugins         (src/Crypto.py)                  ciphers       *)
(*                                                                         *)
(* The specifications share one set of variables:                         *)
(*   SpecRate     one caller at a time uses the guard                      *)
(*   SpecConc     several workers run check_connection interleaved         *)
(*   SpecConnect  the server role of connect(): the accept loop            *)
(*   SpecNet      one client and one server exchange frames on one socket  *)
(*   SpecNetFair  SpecNet with the server's thread running                 *)
(*   SpecCrypto   a cipher plugin is constructed, encrypts and decrypts    *)
(*   SpecConfig   a NetworkSocketConnector is constructed                  *)
(*   SpecValidate validate_data beside check_data_rate                     *)
(*   SpecFrame    one frame is written and read back                       *)
(*   SpecPeers    the guard called for peers given by host and port        *)
(*   SpecStream   receive_stream and send_stream on a returned peer        *)
(***************************************************************************)
EXTENDS Integers, Sequences, FiniteSets, TLC

(***************************************************************************)
(* Bounds of the model.                                                    *)
(***************************************************************************)
\* the clock runs from 0 to MaxTime
MaxTime == 3
\* the value configured for security.max_connections_per_ip
MaxConn == 2
\* the value configured for security.max_data_per_ip
MaxData == 3
\* the value configured for security.rate_window
Window == 2
\* the number of guard calls one behaviour makes
MaxCalls == 4
\* the number of peers accept() produces in one behaviour
MaxPeers == 4
\* the number of accept() timeouts in one behaviour
MaxTimeouts == 1
\* the number of connect() calls in one behaviour
MaxConnects == 3
\* the longest plaintext the client sends
MaxPlain == 1
\* the number of send_data calls the client makes on its socket
MaxFrames == 2
\* the length of the large payload put in one frame
LargeLen == 70000

\* source hosts and ports of peers; an address is <<host, port>>
Hosts == {"h1", "h2"}
Ports == {5001, 5002}
Addrs == Hosts \X Ports
\* the workers that call check_connection concurrently, and the host they treat
Workers == {"w1", "w2"}
SharedHost == "h1"
\* the byte counts handed to check_data_rate: nothing, one byte, one byte
\* under the limit
DataSizes == {0, 1, MaxData - 1}

(***************************************************************************)
(* State.                                                                  *)
(***************************************************************************)
VARIABLES
    \* --- NetworkSecurity ---
    now,                 \* time.time(), in whole ticks
    connection_tracker,  \* host -> deque of admission timestamps
    data_tracker,        \* host -> deque of <<timestamp, bytes>>
    \* --- observation of the guard's callers (history) ---
    calls,               \* every guard call made so far, with what it returned
    \* --- workers inside check_connection (SpecConc) ---
    wpc,                 \* worker -> the line of check_connection it stands at
    wtime,               \* worker -> its local current_time
    \* --- NetworkSocketConnector.connect(), server role (SpecConnect) ---
    apc,                 \* position of the caller of connect()
    lsock,               \* server_socket: "none", "listening" or "closed"
    peers,               \* every peer accept() produced, with what became of it
    nconnects,           \* connect() calls started
    ntimeouts,           \* accept() timeouts seen
    \* --- one client and one server on one connection (SpecNet) ---
    cipher,              \* crypto type both sides are configured with
    cli,                 \* the client: position in send_data and its locals
    srv,                 \* the server: position in start_server and its locals
    cli_open,            \* the client's socket is open
    srv_open,            \* the server's socket (the accepted peer) is open
    c2s,                 \* bytes the client sent that the server has not read
    s2c,                 \* bytes the server sent that the client has not read
    \* --- observation of the exchange (history) ---
    exch,                \* every send_data call: plaintext, how it ended, result
    wlog,                \* every completed sendall: who, ciphertext, bytes written
    dlog,                \* every decrypt call: who, the bytes handed to it, and
                         \* whether a response frame was sent for them
    short_read,          \* some recv returned fewer bytes than were asked for
    env_fault,           \* a timeout or a failed send happened
    \* --- construction and single calls (SpecCrypto, SpecConfig, ---
    \* --- SpecValidate, SpecFrame)                                ---
    config,              \* the configuration the Distributor hands out
    built,               \* what the constructor produced, or the error raised
    call,                \* the calls made on the constructed object
    wire                 \* one frame on its way: payload, bytes read, receiver

guard_vars == <<now, connection_tracker, data_tracker>>
hist_vars == <<calls>>
conc_vars == <<wpc, wtime>>
acc_vars == <<apc, lsock, peers, nconnects, ntimeouts>>
net_vars == <<cipher, cli, srv, cli_open, srv_open, c2s, s2c,
              exch, wlog, dlog, short_read, env_fault>>
unit_vars == <<config, built, call, wire>>
vars == <<guard_vars, hist_vars, conc_vars, acc_vars, net_vars, unit_vars>>

(***************************************************************************)
(* Sequence helpers.                                                       *)
(***************************************************************************)
RECURSIVE SumSizes(_)
\* sum(size for _, size in q)
SumSizes(q) == IF q = <<>> THEN 0 ELSE q[1][2] + SumSizes(Tail(q))

(***************************************************************************)
(* NetworkSecurity.__init__: the configured limits.                        *)
(***************************************************************************)
max_connections_per_ip == MaxConn
max_data_per_ip == MaxData
rate_window == Window

(***************************************************************************)
(* NetworkSecurity.check_connection                                        *)
(***************************************************************************)
\* the loop test of the pruning loop: the oldest timestamp is out of the window
ConnExpiredMut(q, t) == q # <<>> /\ t - q[1] >= rate_window
ConnExpired(q, t) == q # <<>> /\ t - q[1] > rate_window

\* while tracker and current_time - tracker[0] > rate_window: popleft()
RECURSIVE PruneConn(_, _)
PruneConn(q, t) == IF ConnExpired(q, t) THEN PruneConn(Tail(q), t) ELSE q

\* if len(tracker) >= max_connections_per_ip: return False
ConnLimitReachedMut(q) == Len(q) > max_connections_per_ip
ConnLimitReached(q) == Len(q) >= max_connections_per_ip

\* the value check_connection returns at time t on deque q
ConnResult(q, t) == ~ConnLimitReached(PruneConn(q, t))

\* the deque check_connection leaves behind
ConnAfterMut(q, t) == Append(PruneConn(q, t), t)
ConnAfter(q, t) ==
    IF ConnResult(q, t) THEN Append(PruneConn(q, t), t) ELSE PruneConn(q, t)

(***************************************************************************)
(* NetworkSecurity.check_data_rate                                         *)
(***************************************************************************)
DataExpired(q, t) == q # <<>> /\ t - q[1][1] > rate_window

RECURSIVE PruneData(_, _)
PruneData(q, t) == IF DataExpired(q, t) THEN PruneData(Tail(q), t) ELSE q

\* if total_data + data_size > max_data_per_ip: return False
DataLimitExceededMut(total, n) == total + n >= max_data_per_ip
DataLimitExceeded(total, n) == total + n > max_data_per_ip

DataResult(q, t, n) == ~DataLimitExceeded(SumSizes(PruneData(q, t)), n)

DataAfterMut(q, t, n) == Append(PruneData(q, t), <<t, n>>)
DataAfter(q, t, n) ==
    IF DataResult(q, t, n) THEN Append(PruneData(q, t), <<t, n>>)
    ELSE PruneData(q, t)

(***************************************************************************)
(* NetworkSecurity.validate_data                                           *)
(***************************************************************************)
validate_dataMut(data) ==
    IF data = <<>> THEN FALSE
    ELSE IF Len(data) >= max_data_per_ip THEN FALSE
    ELSE TRUE
validate_data(data) ==
    IF data = <<>> THEN FALSE
    ELSE IF Len(data) > max_data_per_ip THEN FALSE
    ELSE TRUE

(***************************************************************************)
(* SpecRate: the guard used by one caller at a time.                       *)
(***************************************************************************)
GuardInit ==
    /\ now = 0
    /\ connection_tracker = [h \in Hosts |-> <<>>]
    /\ data_tracker = [h \in Hosts |-> <<>>]

HistInit == calls = <<>>

\* time passes between calls
Tick ==
    /\ now < MaxTime
    /\ now' = now + 1
    /\ UNCHANGED <<connection_tracker, data_tracker, hist_vars>>
    /\ UNCHANGED <<conc_vars, acc_vars, net_vars, unit_vars>>

\* one call check_connection(addr)
CheckConnection(addr) ==
    LET client_ip == addr[1]
        current_time == now
        q == connection_tracker[client_ip]
    IN  /\ Len(calls) < MaxCalls
        /\ connection_tracker' =
               [connection_tracker EXCEPT ![client_ip] = ConnAfter(q, current_time)]
        /\ calls' = Append(calls, [op |-> "conn", ip |-> client_ip,
                                   t |-> current_time, n |-> 0,
                                   result |-> ConnResult(q, current_time)])
        /\ UNCHANGED <<now, data_tracker, conc_vars, acc_vars, net_vars, unit_vars>>

\* one call check_data_rate(addr, data_size)
CheckDataRate(addr, data_size) ==
    LET client_ip == addr[1]
        current_time == now
        q == data_tracker[client_ip]
    IN  /\ Len(calls) < MaxCalls
        /\ data_tracker' =
               [data_tracker EXCEPT ![client_ip] = DataAfter(q, current_time, data_size)]
        /\ calls' = Append(calls, [op |-> "data", ip |-> client_ip,
                                   t |-> current_time, n |-> data_size,
                                   result |-> DataResult(q, current_time, data_size)])
        /\ UNCHANGED <<now, connection_tracker, conc_vars, acc_vars, net_vars, unit_vars>>

ConcIdle ==
    /\ wpc = [w \in Workers |-> "idle"]
    /\ wtime = [w \in Workers |-> 0]

\* no connection: both sockets closed, nothing in flight
NetIdle ==
    /\ cipher = "xor"
    /\ cli = [pc |-> "closed", data |-> <<>>, length_bytes |-> <<>>, length |-> 0]
    /\ srv = [pc |-> "done", length_bytes |-> <<>>, length |-> 0,
              encrypted_data |-> <<>>, outcome |-> "none"]
    /\ cli_open = FALSE
    /\ srv_open = FALSE
    /\ c2s = <<>>
    /\ s2c = <<>>
    /\ exch = <<>> /\ wlog = <<>> /\ dlog = <<>>
    /\ short_read = FALSE
    /\ env_fault = FALSE

AccIdle ==
    /\ apc = "idle"
    /\ lsock = "none"
    /\ peers = <<>>
    /\ nconnects = 0
    /\ ntimeouts = 0

\* nothing constructed, no call made, no frame built
NoConfig == [json |-> "none"]
NotBuilt == [state |-> "none"]
NoCall == [fn |-> "none"]
NoWire == [pc |-> "none"]
UnitIdle ==
    /\ config = NoConfig
    /\ built = NotBuilt
    /\ call = NoCall
    /\ wire = NoWire

InitRate == GuardInit /\ HistInit /\ ConcIdle /\ AccIdle /\ NetIdle /\ UnitIdle

NextRate ==
    \/ Tick
    \/ \E addr \in Addrs : CheckConnection(addr)
    \/ \E addr \in Addrs, n \in DataSizes : CheckDataRate(addr, n)

SpecRate == InitRate /\ [][NextRate]_vars

(***************************************************************************)
(* Claims about the guard (SpecRate).                                      *)
(***************************************************************************)
\* the earlier calls of kind op for calls[i]'s host that returned true and lie
\* within rate_window of calls[i]
AdmittedInWindow(i) ==
    {j \in 1..(i - 1) :
        /\ calls[j].op = calls[i].op
        /\ calls[j].ip = calls[i].ip
        /\ calls[j].result
        /\ calls[i].t - calls[j].t <= rate_window}

RECURSIVE BytesOf(_)
\* the byte counts of a set of calls, summed
BytesOf(S) ==
    IF S = {} THEN 0
    ELSE LET j == CHOOSE x \in S : TRUE IN calls[j].n + BytesOf(S \ {j})

\* C5: after max_connections_per_ip check_connection calls for one IP returned
\* true within rate_window, the next call for it within the window returns
\* false; once every admission is older than rate_window, the next call
\* returns true.
C5_RateLimiterBoundary ==
    \A i \in 1..Len(calls) :
        calls[i].op = "conn" =>
            /\ (Cardinality(AdmittedInWindow(i)) >= max_connections_per_ip
                    => ~calls[i].result)
            /\ (AdmittedInWindow(i) = {} => calls[i].result)

\* C5 witness: an IP was admitted max_connections_per_ip times, then refused,
\* then admitted again after the window had passed.
C5_Witness ==
    \E i, j \in 1..Len(calls) :
        /\ i < j
        /\ calls[i].op = "conn" /\ calls[j].op = "conn"
        /\ calls[i].ip = calls[j].ip
        /\ ~calls[i].result
        /\ Cardinality(AdmittedInWindow(i)) = max_connections_per_ip
        /\ calls[j].result
        /\ AdmittedInWindow(j) = {}

\* C6: check_data_rate(ip, n) returns false exactly when the bytes recorded for
\* the IP within the last rate_window plus n exceed max_data_per_ip; a call
\* landing exactly on the limit is accepted.
C6_DataRateBoundary ==
    \A i \in 1..Len(calls) :
        calls[i].op = "data" =>
            (calls[i].result <=>
                BytesOf(AdmittedInWindow(i)) + calls[i].n <= max_data_per_ip)

\* C6 witness: a call that lands exactly on the limit is accepted and a later
\* one that would cross it is refused.
C6_Witness ==
    \E i, j \in 1..Len(calls) :
        /\ i < j
        /\ calls[i].op = "data" /\ calls[j].op = "data"
        /\ calls[i].ip = calls[j].ip
        /\ calls[i].result
        /\ AdmittedInWindow(i) # {}
        /\ BytesOf(AdmittedInWindow(i)) + calls[i].n = max_data_per_ip
        /\ ~calls[j].result
        /\ calls[j].n > 0

\* q with some of its oldest entries dropped
Pruned(q) == {SubSeq(q, k + 1, Len(q)) : k \in 0..Len(q)}

\* C23: a check_connection or check_data_rate call that returns false appends
\* nothing to the IP's record (only oldest entries may have been dropped);
\* a call that returns true appends exactly one entry, stamped with the
\* current time, so refused attempts never extend a block.
C23_AppendOnlyOnAccept ==
    [][Len(calls') > Len(calls) =>
        LET c == calls'[Len(calls')]
            before == IF c.op = "conn" THEN connection_tracker[c.ip]
                      ELSE data_tracker[c.ip]
            after == IF c.op = "conn" THEN connection_tracker'[c.ip]
                     ELSE data_tracker'[c.ip]
            entry == IF c.op = "conn" THEN now ELSE <<now, c.n>>
        IN  IF c.result
            THEN \E q \in Pruned(before) : after = Append(q, entry)
            ELSE after \in Pruned(before)]_vars

\* C23 witness: a connection attempt was refused and left the full record
\* of the IP as it was, and a data event of the IP was accepted and is the
\* one entry of its data record.
C23_Witness ==
    \E i, j \in 1..Len(calls) :
        /\ calls[i].op = "conn" /\ ~calls[i].result
        /\ calls[j].op = "data" /\ calls[j].result
        /\ calls[i].ip = calls[j].ip
        /\ Len(connection_tracker[calls[i].ip]) = max_connections_per_ip
        /\ data_tracker[calls[i].ip] = <<(<<calls[j].t, calls[j].n>>)>>

\* C24: after any sequence of check_connection and check_data_rate calls made
\* one at a time, every IP's record holds at most max_connections_per_ip
\* timestamps and byte counts that sum to at most max_data_per_ip.
C24_RecordsWithinLimits ==
    \A h \in Hosts :
        /\ Len(connection_tracker[h]) <= max_connections_per_ip
        /\ SumSizes(data_tracker[h]) <= max_data_per_ip

\* C24 witness: both records of one IP are at their limits, filled by more
\* than one call each.
C24_Witness ==
    \E h \in Hosts :
        /\ Len(connection_tracker[h]) = max_connections_per_ip
        /\ SumSizes(data_tracker[h]) = max_data_per_ip
        /\ Len(data_tracker[h]) > 1

\* the entries of a record that are at most rate_window old at time t
\* (stamp gives an entry's timestamp)
WithinWindow(q, t, stamp(_)) ==
    LET Recent(x) == t - stamp(x) <= rate_window IN SelectSeq(q, Recent)

\* C25: when check_connection or check_data_rate decides at time t, the
\* entries of the IP older than rate_window are not counted and do not
\* remain in the record; an entry exactly rate_window old is counted and
\* stays.
C25_ExpiredDropped ==
    [][Len(calls') > Len(calls) =>
        LET c == calls'[Len(calls')]
            ConnStamp(x) == x
            DataStamp(x) == x[1]
        IN  IF c.op = "conn"
            THEN LET live == WithinWindow(connection_tracker[c.ip], now, ConnStamp)
                 IN  /\ c.result <=> Len(live) < max_connections_per_ip
                     /\ connection_tracker'[c.ip] =
                            IF c.result THEN Append(live, now) ELSE live
            ELSE LET live == WithinWindow(data_tracker[c.ip], now, DataStamp)
                 IN  /\ c.result <=> SumSizes(live) + c.n <= max_data_per_ip
                     /\ data_tracker'[c.ip] =
                            IF c.result THEN Append(live, <<now, c.n>>) ELSE live]_vars

\* C25 witness: a check_connection call decided with one entry of the IP
\* older than the window, which is gone, and one exactly rate_window old,
\* which is still there.
C25_Witness ==
    \E i, j, k \in 1..Len(calls) :
        /\ i < j /\ j < k
        /\ calls[i].op = "conn" /\ calls[j].op = "conn" /\ calls[k].op = "conn"
        /\ calls[i].ip = calls[k].ip /\ calls[j].ip = calls[k].ip
        /\ calls[i].result /\ calls[j].result /\ calls[k].result
        /\ calls[k].t - calls[i].t > rate_window
        /\ calls[k].t - calls[j].t = rate_window
        /\ connection_tracker[calls[k].ip] = <<calls[j].t, calls[k].t>>

(***************************************************************************)
(* SpecConc: workers run check_connection for one host with no lock; a     *)
(* worker may be preempted between any two lines of the method.            *)
(***************************************************************************)
\* lines 42-43: client_ip = client_addr[0]; current_time = time.time()
cc_begin(w) ==
    /\ wpc[w] = "idle"
    /\ Len(calls) + Cardinality({v \in Workers : wpc[v] # "idle"}) < MaxCalls
    /\ wpc' = [wpc EXCEPT ![w] = "test"]
    /\ wtime' = [wtime EXCEPT ![w] = now]
    /\ UNCHANGED <<guard_vars, hist_vars, acc_vars, net_vars, unit_vars>>

\* line 46: the test of the pruning loop
cc_test(w) ==
    /\ wpc[w] = "test"
    /\ wpc' = [wpc EXCEPT ![w] =
                  IF ConnExpired(connection_tracker[SharedHost], wtime[w])
                  THEN "popleft" ELSE "check"]
    /\ UNCHANGED <<guard_vars, hist_vars, wtime, acc_vars, net_vars, unit_vars>>

\* line 47: popleft(); on a deque another worker has emptied it raises IndexError
cc_popleft(w) ==
    /\ wpc[w] = "popleft"
    /\ IF connection_tracker[SharedHost] = <<>>
       THEN /\ wpc' = [wpc EXCEPT ![w] = "idle"]
            /\ calls' = Append(calls, [op |-> "raise", ip |-> SharedHost,
                                       t |-> wtime[w], n |-> 0, result |-> FALSE])
            /\ UNCHANGED connection_tracker
       ELSE /\ wpc' = [wpc EXCEPT ![w] = "test"]
            /\ connection_tracker' =
                   [connection_tracker EXCEPT ![SharedHost] = Tail(@)]
            /\ UNCHANGED calls
    /\ UNCHANGED <<now, data_tracker, wtime, acc_vars, net_vars, unit_vars>>

\* lines 50-53: the limit test; return False when the limit is reached
cc_check(w) ==
    /\ wpc[w] = "check"
    /\ IF ConnLimitReached(connection_tracker[SharedHost])
       THEN /\ wpc' = [wpc EXCEPT ![w] = "idle"]
            /\ calls' = Append(calls, [op |-> "conn", ip |-> SharedHost,
                                       t |-> wtime[w], n |-> 0, result |-> FALSE])
       ELSE /\ wpc' = [wpc EXCEPT ![w] = "append"]
            /\ UNCHANGED calls
    /\ UNCHANGED <<guard_vars, wtime, acc_vars, net_vars, unit_vars>>

\* lines 56-59: append(current_time); return True
cc_append(w) ==
    /\ wpc[w] = "append"
    /\ connection_tracker' =
           [connection_tracker EXCEPT ![SharedHost] = Append(@, wtime[w])]
    /\ calls' = Append(calls, [op |-> "conn", ip |-> SharedHost,
                               t |-> wtime[w], n |-> 0, result |-> TRUE])
    /\ wpc' = [wpc EXCEPT ![w] = "idle"]
    /\ UNCHANGED <<now, data_tracker, wtime, acc_vars, net_vars, unit_vars>>

InitConc == GuardInit /\ HistInit /\ ConcIdle /\ AccIdle /\ NetIdle /\ UnitIdle

NextConc ==
    \/ Tick
    \/ \E w \in Workers : cc_begin(w)
    \/ \E w \in Workers : cc_test(w)
    \/ \E w \in Workers : cc_popleft(w)
    \/ \E w \in Workers : cc_check(w)
    \/ \E w \in Workers : cc_append(w)

SpecConc == InitConc /\ [][NextConc]_vars

\* the calls that returned true with a timestamp in the window that starts at
\* calls[i]'s timestamp
AdmittedFrom(i) ==
    {j \in 1..Len(calls) :
        /\ calls[j].op = "conn"
        /\ calls[j].ip = calls[i].ip
        /\ calls[j].result
        /\ calls[j].t >= calls[i].t
        /\ calls[j].t - calls[i].t <= rate_window}

\* C7: when several workers call check_connection for one IP concurrently, the
\* number of calls that return true within one window never exceeds
\* max_connections_per_ip.
C7_Original ==
    \A i \in 1..Len(calls) :
        (calls[i].op = "conn" /\ calls[i].result)
            => Cardinality(AdmittedFrom(i)) <= max_connections_per_ip

(***************************************************************************)
(* SpecConnect: NetworkSocketConnector.connect() in server role.  One      *)
(* caller; every call creates a listening socket and runs the accept loop. *)
(***************************************************************************)
\* line 197: `if not self.security.check_connection(addr)`, on its result
PeerRejectedMut(admitted) == FALSE
PeerRejected(admitted) == ~admitted

\* line 199: what the loop does to a rejected peer: client_socket.close()
RejectPeer(p) == [p EXCEPT !.open = FALSE]

\* lines 201-204: set_socket_timeout(client_socket); return client_socket
ReturnPeer(p) == [p EXCEPT !.timeout_set = TRUE, !.returned = TRUE]

\* line 203: server_socket.close() before the peer is returned
ListenerAtReturnMut == "listening"
ListenerAtReturn == "closed"

\* lines 186-192: socket(), setsockopt, set_socket_timeout, bind, listen
connect_listen ==
    /\ apc = "idle"
    /\ nconnects < MaxConnects
    /\ lsock' = "listening"
    /\ apc' = "accept"
    /\ nconnects' = nconnects + 1
    /\ UNCHANGED <<guard_vars, hist_vars, conc_vars, net_vars, unit_vars, peers, ntimeouts>>

\* lines 196-204: accept() produces a peer from addr; check_connection decides
connect_accept(addr) ==
    LET admitted == ConnResult(connection_tracker[addr[1]], now)
        p == [ip |-> addr[1], port |-> addr[2], call |-> nconnects,
              admitted |-> admitted, open |-> TRUE, timeout_set |-> FALSE,
              returned |-> FALSE, io |-> 0]
    IN  /\ apc = "accept"
        /\ Len(peers) < MaxPeers
        /\ connection_tracker' =
               [connection_tracker EXCEPT
                   ![addr[1]] = ConnAfter(connection_tracker[addr[1]], now)]
        /\ IF PeerRejected(admitted)
           THEN \* close the peer and `continue`
                /\ peers' = Append(peers, RejectPeer(p))
                /\ UNCHANGED <<apc, lsock>>
           ELSE /\ peers' = Append(peers, ReturnPeer(p))
                /\ lsock' = ListenerAtReturn
                /\ apc' = "idle"
        /\ UNCHANGED <<now, data_tracker, hist_vars, conc_vars, net_vars, unit_vars, nconnects, ntimeouts>>

\* lines 205-207: accept() raises socket.timeout; the loop continues
connect_timeout ==
    /\ apc = "accept"
    /\ ntimeouts < MaxTimeouts
    /\ ntimeouts' = ntimeouts + 1
    /\ UNCHANGED <<guard_vars, hist_vars, conc_vars, net_vars, unit_vars, apc, lsock, peers, nconnects>>

InitConnect == GuardInit /\ HistInit /\ ConcIdle /\ AccIdle /\ NetIdle /\ UnitIdle

NextConnect ==
    \/ Tick
    \/ connect_listen
    \/ \E addr \in Addrs : connect_accept(addr)
    \/ connect_timeout

SpecConnect == InitConnect /\ [][NextConnect]_vars

\* C9: connect() never returns a peer check_connection refused: such a peer is
\* closed at once with no read or write on it and the loop goes on; every
\* peer returned was admitted and has the socket timeout applied.
C9_RejectedPeersClosed ==
    \A i \in 1..Len(peers) :
        /\ ~peers[i].admitted =>
              /\ ~peers[i].returned
              /\ ~peers[i].open
              /\ peers[i].io = 0
              /\ (i = Len(peers) => apc = "accept")
        /\ peers[i].returned =>
              /\ peers[i].admitted
              /\ peers[i].timeout_set
              /\ peers[i].open

\* C9 witness: one connect() call refused a peer, went on accepting and then
\* returned an admitted peer.
C9_Witness ==
    \E i, j \in 1..Len(peers) :
        /\ i < j
        /\ peers[i].call = peers[j].call
        /\ ~peers[i].admitted
        /\ peers[j].returned

\* C10: each connect() call hands exactly one admitted peer to the caller and
\* the listening socket is closed when that peer is returned; it is open
\* while peers are refused or accepts time out and never open after the
\* return.
C10_OnePeerPerConnect ==
    /\ apc = "accept" => lsock = "listening"
    /\ apc = "idle" => lsock # "listening"
    /\ \A c \in 1..nconnects :
          LET got == {i \in 1..Len(peers) : peers[i].call = c /\ peers[i].returned}
          IN  IF c < nconnects \/ apc = "idle"
              THEN Cardinality(got) = 1
              ELSE got = {}

\* C10 witness: a connect() call that refused a peer and saw a timeout has
\* returned, and its listening socket is closed.
C10_Witness ==
    /\ apc = "idle"
    /\ lsock = "closed"
    /\ ntimeouts > 0
    /\ \E i, j \in 1..Len(peers) :
          /\ peers[i].call = nconnects /\ ~peers[i].admitted
          /\ peers[j].call = nconnects /\ peers[j].returned

(***************************************************************************)
(* Bytes and the wire format.                                              *)
(***************************************************************************)
Min(a, b) == IF a < b THEN a ELSE b

RECURSIVE XorBits(_, _, _)
\* a ^ b on the k low bits
XorBits(a, b, k) ==
    IF k = 0 THEN 0
    ELSE (((a % 2) + (b % 2)) % 2) + 2 * XorBits(a \div 2, b \div 2, k - 1)

\* b ^ key on one byte
Xor8(a, b) == XorBits(a, b, 8)

\* n.to_bytes(4, byteorder='big')
to_bytes4(n) ==
    <<(n \div 16777216) % 256, (n \div 65536) % 256, (n \div 256) % 256, n % 256>>

RECURSIVE from_bytes(_)
\* int.from_bytes(bs, byteorder='big'), for any number of bytes
from_bytes(bs) ==
    IF bs = <<>> THEN 0
    ELSE 256 * from_bytes(SubSeq(bs, 1, Len(bs) - 1)) + bs[Len(bs)]

\* the largest number the model counts to; a decoded length above it is
\* taken as this number, which is beyond the length of every stream
IntCap == (127 * 16777216) + 16777215

\* length = int.from_bytes(length_bytes, byteorder='big'), used as the byte
\* count of the next recv
LengthOf(length_bytes) ==
    IF Len(length_bytes) = 4 /\ length_bytes[1] >= 128 THEN IntCap
    ELSE from_bytes(length_bytes)

\* len(encrypted).to_bytes(4, byteorder='big') + encrypted
Frame(encrypted) == to_bytes4(Len(encrypted)) \o encrypted

\* socket.sendall(frame): every byte of the frame is put on the stream
sendallMut(stream, frame) == stream \o SubSeq(frame, 1, Len(frame) - 1)
sendall(stream, frame) == stream \o frame

\* the first k bytes of a sequence, and what follows them
Take(bs, k) == SubSeq(bs, 1, k)
Drop(bs, k) == SubSeq(bs, k + 1, Len(bs))

(***************************************************************************)
(* Crypto plugins.  The AES block function and the GCM keystream and tag   *)
(* come from the cryptography and pycryptodome libraries; they are stood   *)
(* for by a keyed block permutation, a position keystream and a checksum,  *)
(* which keep what the plugins rely on: the block function is invertible   *)
(* and a changed input bit garbles its output block, the keystream depends *)
(* on the position only, the tag on the ciphertext.                        *)
(***************************************************************************)
\* params of the test configurations
xor_byte == 42
aes_key_byte == 116
aes_key_byte2 == 101
BlockSize == 16
TagSize == 16
\* b"testiv1234567890"
iv == <<116, 101, 115, 116, 105, 118, 49, 50, 51, 52, 53, 54, 55, 56, 57, 48>>
\* self.nonce of a constructed AES-GCM plugin: b"testnonce123", 12 bytes, the
\* only length line 114 admits (the nonce of Test_Network's configuration has
\* 15 bytes and is refused by the constructor)
nonce == <<116, 101, 115, 116, 110, 111, 110, 99, 101, 49, 50, 51>>

Ok(data) == [ok |-> TRUE, data |-> data, err |-> "none"]
Err(e) == [ok |-> FALSE, data |-> <<>>, err |-> e]

\* bytes(b ^ k for b in data)
XorWithMut(k, data) == [i \in 1..Len(data) |-> (data[i] + k) % 256]
XorWith(k, data) == [i \in 1..Len(data) |-> Xor8(data[i], k)]

\* XORPlugin.encrypt: bytes(b ^ self.xor_byte for b in data)
XorEncrypt(data) == XorWith(xor_byte, data)
\* XORPlugin.decrypt: bytes(b ^ self.xor_byte for b in data)
XorDecrypt(data) == Ok(XorWith(xor_byte, data))

\* the byte substitution of the stand-in block function (45^b mod 257, a
\* permutation of the bytes)
AesSbox ==
    LET RECURSIVE Power(_)
        Power(b) ==
            IF b = 0 THEN 1
            ELSE LET half == Power(b \div 2)
                 IN  (half * half * (IF b % 2 = 1 THEN 45 ELSE 1)) % 257
    IN  [b \in 0..255 |-> Power(b) % 256]

\* the round function of the stand-in: eight bytes made from one half of a
\* block and a key byte, all of which change when a bit of the half changes
AesRound(half, k) ==
    LET digest == AesSbox[(half[1] + (3 * half[2]) + (5 * half[3]) + (7 * half[4])
                           + (9 * half[5]) + (11 * half[6]) + (13 * half[7])
                           + (15 * half[8]) + k) % 256]
    IN  [i \in 1..(BlockSize \div 2) |-> AesSbox[(digest + i) % 256]]

\* the AES block function on one block, and its inverse: a keyed permutation
\* of the 16-byte blocks (three Feistel rounds) in which a changed bit of
\* the input changes bytes all over the output, in both directions
AesBlock(block) ==
    LET Add(a, b) == [i \in 1..(BlockSize \div 2) |-> (a[i] + b[i]) % 256]
        left0 == SubSeq(block, 1, BlockSize \div 2)
        right0 == SubSeq(block, (BlockSize \div 2) + 1, BlockSize)
        left1 == Add(left0, AesRound(right0, aes_key_byte))
        right1 == Add(right0, AesRound(left1, aes_key_byte2))
        left2 == Add(left1, AesRound(right1, aes_key_byte))
    IN  left2 \o right1
AesBlockInv(block) ==
    LET Sub(a, b) == [i \in 1..(BlockSize \div 2) |-> (a[i] + 256 - b[i]) % 256]
        left2 == SubSeq(block, 1, BlockSize \div 2)
        right1 == SubSeq(block, (BlockSize \div 2) + 1, BlockSize)
        left1 == Sub(left2, AesRound(right1, aes_key_byte))
        right0 == Sub(right1, AesRound(left1, aes_key_byte2))
        left0 == Sub(left1, AesRound(right0, aes_key_byte))
    IN  left0 \o right0

\* encryptor.update(padded) + encryptor.finalize() in CBC mode: every block
\* is xored with the ciphertext block before it (the iv for the first) and
\* then encrypted
CbcEncryptBlocks(padded) ==
    LET RECURSIVE BlocksFrom(_, _)
        BlocksFrom(previous, rest) ==
            IF rest = <<>> THEN <<>>
            ELSE LET c == AesBlock([i \in 1..BlockSize |-> Xor8(rest[i], previous[i])])
                 IN  c \o BlocksFrom(c, Drop(rest, BlockSize))
    IN  BlocksFrom(iv, padded)

\* decryptor.update(data) + decryptor.finalize() in CBC mode, on whole
\* blocks: every block is decrypted and then xored with the ciphertext block
\* before it (the iv for the first)
CbcDecryptBlocks(data) ==
    LET RECURSIVE BlocksFrom(_, _)
        BlocksFrom(previous, rest) ==
            IF rest = <<>> THEN <<>>
            ELSE LET c == Take(rest, BlockSize)
                     d == AesBlockInv(c)
                 IN  [i \in 1..BlockSize |-> Xor8(d[i], previous[i])]
                         \o BlocksFrom(c, Drop(rest, BlockSize))
    IN  BlocksFrom(iv, data)

\* padding_length = 16 - (len(data) % 16)
PaddingLengthMut(n) == (BlockSize - (n % BlockSize)) % BlockSize
PaddingLength(n) == BlockSize - (n % BlockSize)

\* data + bytes([padding_length] * padding_length)
Pad(data) ==
    data \o [i \in 1..PaddingLength(Len(data)) |-> PaddingLength(Len(data))]

\* padded_data[:-padding_length], with padding_length = padded_data[-1]
StripPadding(padded) ==
    LET padding_length == padded[Len(padded)]
    IN  IF padding_length = 0 \/ padding_length >= Len(padded) THEN <<>>
        ELSE Take(padded, Len(padded) - padding_length)

\* AES_CBC_CryptographyPlugin.encrypt
CbcEncrypt(data) == CbcEncryptBlocks(Pad(data))

\* AES_CBC_CryptographyPlugin.decrypt: finalize() raises ValueError on a
\* partial block, padded_data[-1] raises IndexError on empty data
CbcDecrypt(data) ==
    IF Len(data) % BlockSize # 0 THEN Err("ValueError")
    ELSE IF data = <<>> THEN Err("IndexError")
    ELSE Ok(StripPadding(CbcDecryptBlocks(data)))

\* the GCM keystream byte at position k (key and nonce fixed)
GcmKeystream(k) ==
    (aes_key_byte + nonce[((k - 1) % Len(nonce)) + 1] + (7 * k)) % 256

\* the counter-mode part of GCM, the same in both directions
GcmCtr(data) == [k \in 1..Len(data) |-> Xor8(data[k], GcmKeystream(k))]

\* all bytes of a sequence xor-ed together: bit k of the result is the parity
\* of the number of bytes that have bit k set
XorFold(bs) ==
    LET Parity(k) ==
            Cardinality({i \in 1..Len(bs) : (bs[i] \div (2 ^ k)) % 2 = 1}) % 2
    IN  Parity(0) + (2 * Parity(1)) + (4 * Parity(2)) + (8 * Parity(3))
            + (16 * Parity(4)) + (32 * Parity(5)) + (64 * Parity(6))
            + (128 * Parity(7))

RECURSIVE WeightedRange(_, _, _)
\* the bytes lo..hi of a sequence summed with their positions as weights
WeightedRange(bs, lo, hi) ==
    IF lo > hi THEN 0
    ELSE IF lo = hi THEN (lo * bs[lo]) % 256
    ELSE LET mid == (lo + hi) \div 2
         IN  (WeightedRange(bs, lo, mid) + WeightedRange(bs, mid + 1, hi)) % 256

\* the bytes of a sequence summed with their positions as weights
WeightedSum(bs) == WeightedRange(bs, 1, Len(bs))

\* the 16-byte authentication tag of a ciphertext
GcmTag(ciphertext) ==
    [i \in 1..TagSize |->
        IF i % 2 = 1 THEN Xor8(XorFold(ciphertext), (aes_key_byte + i) % 256)
        ELSE (WeightedSum(ciphertext) + Len(ciphertext) + i) % 256]

\* AES_GCM_PycryptodomePlugin.encrypt: ciphertext + tag
GcmEncrypt(data) == GcmCtr(data) \o GcmTag(GcmCtr(data))

\* AES_GCM_PycryptodomePlugin.decrypt: tag = data[-16:], ciphertext = data[:-16];
\* decrypt_and_verify raises ValueError when the tag does not match
GcmDecryptMut(data) ==
    LET n == Len(data)
    IN  Ok(GcmCtr(IF n <= TagSize THEN <<>> ELSE Take(data, n - TagSize)))
GcmDecrypt(data) ==
    LET n == Len(data)
        tag == IF n <= TagSize THEN data ELSE Drop(data, n - TagSize)
        ciphertext == IF n <= TagSize THEN <<>> ELSE Take(data, n - TagSize)
    IN  IF tag = GcmTag(ciphertext) THEN Ok(GcmCtr(ciphertext))
        ELSE Err("ValueError")

\* Crypto.encrypt: the plugin the configuration selected
encrypt(type, data) ==
    CASE type = "xor" -> XorEncrypt(data)
      [] type = "cryptography:aes-cbc" -> CbcEncrypt(data)
      [] type = "pycryptodome:aes-gcm" -> GcmEncrypt(data)

\* Crypto.decrypt: the plugin the configuration selected
decrypt(type, data) ==
    CASE type = "xor" -> XorDecrypt(data)
      [] type = "cryptography:aes-cbc" -> CbcDecrypt(data)
      [] type = "pycryptodome:aes-gcm" -> GcmDecrypt(data)

CipherTypes == {"xor", "cryptography:aes-cbc", "pycryptodome:aes-gcm"}

(***************************************************************************)
(* SpecNet: a client (Test_Network: connect, send_data, close) and a       *)
(* server (connect, start_server) on one TCP connection.  Both are         *)
(* configured with the same crypto type.  A stream holds the bytes sent    *)
(* and not yet read; how many of them have arrived when recv is called is  *)
(* not fixed, so recv(n) returns any number of them from 1 to n, or times  *)
(* out when none arrived in time.  Request bytes the server has not read   *)
(* when it closes its socket, or that are written after it closed, stay in *)
(* c2s: the server's side answers them with a reset, and a recv of the     *)
(* client that finds nothing left to read may then raise                   *)
(* ConnectionResetError instead of returning b"".                          *)
(***************************************************************************)
\* the byte values plaintexts are made of, and the plaintexts
PlainBytes == {72}
Plaintexts == UNION {[1..n -> PlainBytes] : n \in 0..MaxPlain}

\* the numbers of bytes socket.recv(n) may return on a stream with bytes in it
RecvSizes(stream, n) == 1..Min(n, Len(stream))

InitNet ==
    /\ GuardInit /\ HistInit /\ ConcIdle /\ AccIdle /\ UnitIdle
    /\ cipher \in CipherTypes
    /\ cli = [pc |-> "ready", data |-> <<>>, length_bytes |-> <<>>, length |-> 0]
    /\ srv = [pc |-> "recv_len", length_bytes |-> <<>>, length |-> 0,
              encrypted_data |-> <<>>, outcome |-> "none"]
    /\ cli_open = TRUE
    /\ srv_open = TRUE
    /\ c2s = <<>>
    /\ s2c = <<>>
    /\ exch = <<>> /\ wlog = <<>> /\ dlog = <<>>
    /\ short_read = FALSE
    /\ env_fault = FALSE

others_net == <<guard_vars, hist_vars, conc_vars, acc_vars, unit_vars>>

(*************************** SecureDataTransmitter.send_data ***************)
\* lines 53 and 85, `except socket.error`: inside both methods `socket` is
\* the parameter, a socket object with no attribute `error`, so evaluating
\* the clause for any exception that reaches it raises AttributeError in
\* place of the exception being handled (which it carries as its context);
\* neither handler body ever runs
ExceptSocketError(raised) ==
    CASE raised = "timeout" -> "AttributeError_on_timeout"
      [] raised = "closed" -> "AttributeError_on_closed"
      [] raised = "reset" -> "AttributeError_on_reset"
      [] raised = "send" -> "AttributeError_on_send"
      [] raised = "decrypt" -> "AttributeError_on_decrypt"

\* how a send_data call ended: exch gets one entry per call
Exchange(p, how, response) == [p |-> p, how |-> how, response |-> response]

\* one completed sendall: the ciphertext it was given and the bytes it put
\* on the stream
Written(who, encrypted, before, after) ==
    [who |-> who, encrypted |-> encrypted, written |-> Drop(after, Len(before))]

\* lines 39-41: encrypt, sendall of the frame; the call then waits on line 44.
\* Bytes sent to a peer that has closed are accepted; the peer never reads
\* them and answers with a reset.
send_data_send(p) ==
    LET encrypted_data == encrypt(cipher, p)
        after == sendall(c2s, Frame(encrypted_data))
    IN  /\ cli.pc = "ready"
        /\ cli_open
        /\ Len(exch) < MaxFrames
        /\ c2s' = after
        /\ wlog' = Append(wlog, Written("client", encrypted_data, c2s, after))
        /\ cli' = [pc |-> "recv_len", data |-> p, length_bytes |-> <<>>, length |-> 0]
        /\ UNCHANGED <<cipher, srv, cli_open, srv_open, s2c,
                       exch, dlog, short_read, env_fault, others_net>>

\* line 40 on a connection the peer has closed: sendall may raise (outside
\* the try, so the error leaves send_data)
send_data_send_fail(p) ==
    /\ cli.pc = "ready"
    /\ cli_open
    /\ Len(exch) < MaxFrames
    /\ ~srv_open
    /\ exch' = Append(exch, Exchange(p, "raise_send", <<>>))
    /\ env_fault' = TRUE
    /\ UNCHANGED <<cipher, cli, srv, cli_open, srv_open, c2s, s2c,
                   wlog, dlog, short_read, others_net>>

\* lines 44, 48: length_bytes = recv(4) returned k bytes; length = from_bytes
send_data_recv_len(k) ==
    /\ cli.pc = "recv_len"
    /\ k \in RecvSizes(s2c, 4)
    /\ cli' = [cli EXCEPT !.pc = "recv_body",
                          !.length_bytes = Take(s2c, k),
                          !.length = LengthOf(Take(s2c, k))]
    /\ s2c' = Drop(s2c, k)
    /\ short_read' = (short_read \/ k < 4)
    /\ UNCHANGED <<cipher, srv, cli_open, srv_open, c2s,
                   exch, wlog, dlog, env_fault, others_net>>

\* line 45, `if not length_bytes`
EmptyRead(length_bytes) == length_bytes = <<>>

\* lines 44-48: recv(4) returned b"" (the peer closed and nothing is left to
\* read): return b""
send_data_no_response ==
    LET length_bytes == <<>>
    IN  /\ cli.pc = "recv_len"
        /\ s2c = <<>> /\ ~srv_open
        /\ IF EmptyRead(length_bytes)
           THEN /\ cli' = [cli EXCEPT !.pc = "ready"]
                /\ exch' = Append(exch, Exchange(cli.data, "no_response", <<>>))
           ELSE /\ cli' = [cli EXCEPT !.pc = "recv_body",
                                      !.length_bytes = length_bytes,
                                      !.length = LengthOf(length_bytes)]
                /\ UNCHANGED exch
        /\ UNCHANGED <<cipher, srv, cli_open, srv_open, c2s, s2c,
                       wlog, dlog, short_read, env_fault, others_net>>

\* lines 44/49, 53: recv raised socket.timeout, which reaches the except
\* clause
send_data_timeout ==
    /\ cli.pc \in {"recv_len", "recv_body"}
    /\ cli.pc = "recv_body" => cli.length > 0
    /\ cli' = [cli EXCEPT !.pc = "ready"]
    /\ exch' = Append(exch, Exchange(cli.data, ExceptSocketError("timeout"), <<>>))
    /\ env_fault' = TRUE
    /\ UNCHANGED <<cipher, srv, cli_open, srv_open, c2s, s2c,
                   wlog, dlog, short_read, others_net>>

\* the connection has been reset: the server closed its socket with request
\* bytes unread, or the request was written after it closed
ConnectionReset == ~srv_open /\ c2s # <<>>

\* lines 44/49, 53: recv raised ConnectionResetError, which reaches the
\* except clause.  Bytes of a response that arrived before the reset are
\* read first.
send_data_reset ==
    /\ cli.pc \in {"recv_len", "recv_body"}
    /\ cli.pc = "recv_body" => cli.length > 0
    /\ ConnectionReset
    /\ s2c = <<>>
    /\ cli' = [cli EXCEPT !.pc = "ready"]
    /\ exch' = Append(exch, Exchange(cli.data, ExceptSocketError("reset"), <<>>))
    /\ UNCHANGED <<cipher, srv, cli_open, srv_open, c2s, s2c,
                   wlog, dlog, short_read, env_fault, others_net>>

\* the end of send_data once encrypted_response is read, lines 50-52:
\* response = decrypt(...); a decrypt failure reaches the except clause of
\* line 53 too
ClientDecrypts(encrypted_response) ==
    LET response == decrypt(cipher, encrypted_response)
    IN  /\ dlog' = Append(dlog, [who |-> "client", input |-> encrypted_response,
                                 answered |-> FALSE])
        /\ short_read' = (short_read \/ Len(encrypted_response) < cli.length)
        /\ cli' = [cli EXCEPT !.pc = "ready"]
        /\ exch' = Append(exch,
                IF response.ok THEN Exchange(cli.data, "return", response.data)
                ELSE Exchange(cli.data, ExceptSocketError("decrypt"), <<>>))

\* line 49: encrypted_response = recv(length) returned k bytes
send_data_recv_body(k) ==
    /\ cli.pc = "recv_body"
    /\ k \in RecvSizes(s2c, cli.length)
    /\ s2c' = Drop(s2c, k)
    /\ ClientDecrypts(Take(s2c, k))
    /\ UNCHANGED <<cipher, srv, cli_open, srv_open, c2s, wlog, env_fault, others_net>>

\* line 49: recv(length) returned b"": length is 0, or the peer closed
send_data_recv_nothing ==
    /\ cli.pc = "recv_body"
    /\ cli.length = 0 \/ (s2c = <<>> /\ ~srv_open)
    /\ ClientDecrypts(<<>>)
    /\ UNCHANGED <<cipher, srv, cli_open, srv_open, c2s, s2c, wlog, env_fault,
                   others_net>>

\* Test_Network line 122: the caller closes the socket
client_close ==
    /\ cli.pc = "ready"
    /\ cli_open
    /\ cli_open' = FALSE
    /\ cli' = [cli EXCEPT !.pc = "closed"]
    /\ s2c' = <<>>
    /\ UNCHANGED <<cipher, srv, srv_open, c2s,
                   exch, wlog, dlog, short_read, env_fault, others_net>>

(************************* SecureDataTransmitter.start_server **************)
\* the way out of the loop: start_server has ended, by the break of line 74
\* or by an exception that leaves it
ServerStopped(how) ==
    [pc |-> "done", length_bytes |-> <<>>, length |-> 0,
     encrypted_data |-> <<>>, outcome |-> how]

\* lines 88-90, the `finally` of every iteration: client_socket.close()
SocketAfterIterationMut == TRUE
SocketAfterIteration == FALSE

\* lines 71, 75: length_bytes = recv(4) returned k bytes
start_server_recv_len(k) ==
    /\ srv.pc = "recv_len"
    /\ srv_open
    /\ k \in RecvSizes(c2s, 4)
    /\ srv' = [srv EXCEPT !.pc = "recv_body",
                          !.length_bytes = Take(c2s, k),
                          !.length = LengthOf(Take(c2s, k))]
    /\ c2s' = Drop(c2s, k)
    /\ short_read' = (short_read \/ k < 4)
    /\ UNCHANGED <<cipher, cli, cli_open, srv_open, s2c,
                   exch, wlog, dlog, env_fault, others_net>>

\* lines 71-74, 88-90: recv(4) returned b"": "Client disconnected", break
start_server_disconnected ==
    /\ srv.pc = "recv_len"
    /\ srv_open
    /\ c2s = <<>> /\ ~cli_open
    /\ srv' = ServerStopped("disconnected")
    /\ srv_open' = SocketAfterIteration
    /\ UNCHANGED <<cipher, cli, cli_open, c2s, s2c,
                   exch, wlog, dlog, short_read, env_fault, others_net>>

\* lines 71/76, 85, 88-90: recv raised socket.timeout, which reaches the
\* except clause; the `finally` closes the socket
start_server_timeout ==
    /\ srv.pc \in {"recv_len", "recv_body"}
    /\ srv.pc = "recv_body" => srv.length > 0
    /\ srv_open
    /\ srv' = ServerStopped(ExceptSocketError("timeout"))
    /\ srv_open' = SocketAfterIteration
    /\ env_fault' = TRUE
    /\ UNCHANGED <<cipher, cli, cli_open, c2s, s2c,
                   exch, wlog, dlog, short_read, others_net>>

\* line 76: encrypted_data = recv(length) returned k bytes
start_server_recv_body(k) ==
    /\ srv.pc = "recv_body"
    /\ k \in RecvSizes(c2s, srv.length)
    /\ srv' = [srv EXCEPT !.pc = "echo", !.encrypted_data = Take(c2s, k)]
    /\ c2s' = Drop(c2s, k)
    /\ short_read' = (short_read \/ k < srv.length)
    /\ UNCHANGED <<cipher, cli, cli_open, srv_open, s2c,
                   exch, wlog, dlog, env_fault, others_net>>

\* line 76: recv(length) returned b"": length is 0, or the peer closed
start_server_recv_nothing ==
    /\ srv.pc = "recv_body"
    /\ srv.length = 0 \/ (c2s = <<>> /\ ~cli_open)
    /\ srv' = [srv EXCEPT !.pc = "echo", !.encrypted_data = <<>>]
    /\ short_read' = (short_read \/ 0 < srv.length)
    /\ UNCHANGED <<cipher, cli, cli_open, srv_open, c2s, s2c,
                   exch, wlog, dlog, env_fault, others_net>>

\* lines 77-84: decrypt, echo the plaintext re-encrypted in one frame
\* (sendall, line 83).  A decrypt failure reaches the except clause of line
\* 85 and the `finally` closes the socket.
start_server_echo ==
    LET data == decrypt(cipher, srv.encrypted_data)
        encrypted_response == encrypt(cipher, data.data)
        after == sendall(s2c, Frame(encrypted_response))
    IN  /\ srv.pc = "echo"
        /\ dlog' = Append(dlog, [who |-> "server", input |-> srv.encrypted_data,
                                 answered |-> data.ok])
        /\ IF data.ok
           THEN /\ s2c' = IF cli_open THEN after ELSE <<>>
                /\ wlog' = Append(wlog, Written("server", encrypted_response, s2c, after))
                /\ srv' = [srv EXCEPT !.pc = "finally"]
                /\ UNCHANGED srv_open
           ELSE /\ srv' = ServerStopped(ExceptSocketError("decrypt"))
                /\ srv_open' = SocketAfterIteration
                /\ UNCHANGED <<s2c, wlog>>
        /\ UNCHANGED <<cipher, cli, cli_open, c2s,
                       exch, short_read, env_fault, others_net>>

\* lines 88-90 after the echo was written: the `finally` closes the socket
\* and the loop goes round to line 71, where recv on the closed socket
\* raises OSError at once; that reaches the except clause of line 85, and
\* the `finally` runs again
start_server_finally ==
    /\ srv.pc = "finally"
    /\ srv' = IF SocketAfterIteration THEN [srv EXCEPT !.pc = "recv_len"]
              ELSE ServerStopped(ExceptSocketError("closed"))
    /\ srv_open' = SocketAfterIteration
    /\ UNCHANGED <<cipher, cli, cli_open, c2s, s2c,
                   exch, wlog, dlog, short_read, env_fault, others_net>>

\* lines 77-90 when the client has closed its socket: sendall may raise,
\* which reaches the except clause; the `finally` closes the socket
start_server_echo_fail ==
    LET data == decrypt(cipher, srv.encrypted_data)
    IN  /\ srv.pc = "echo"
        /\ ~cli_open
        /\ data.ok
        /\ dlog' = Append(dlog, [who |-> "server", input |-> srv.encrypted_data,
                                 answered |-> FALSE])
        /\ srv' = ServerStopped(ExceptSocketError("send"))
        /\ srv_open' = SocketAfterIteration
        /\ env_fault' = TRUE
        /\ UNCHANGED <<cipher, cli, cli_open, c2s, s2c,
                       exch, wlog, short_read, others_net>>

NextNet ==
    \/ \E p \in Plaintexts : send_data_send(p)
    \/ \E p \in Plaintexts : send_data_send_fail(p)
    \/ \E k \in 1..4 : send_data_recv_len(k)
    \/ send_data_no_response
    \/ send_data_timeout
    \/ send_data_reset
    \/ \E k \in 1..Len(s2c) : send_data_recv_body(k)
    \/ send_data_recv_nothing
    \/ client_close
    \/ \E k \in 1..4 : start_server_recv_len(k)
    \/ start_server_disconnected
    \/ start_server_timeout
    \/ \E k \in 1..Len(c2s) : start_server_recv_body(k)
    \/ start_server_recv_nothing
    \/ start_server_echo
    \/ start_server_finally
    \/ start_server_echo_fail

SpecNet == InitNet /\ [][NextNet]_vars

\* one step of start_server at a recv (lines 71, 76), whichever it is
start_server_recv ==
    \/ \E k \in 1..4 : start_server_recv_len(k)
    \/ start_server_disconnected
    \/ start_server_timeout
    \/ \E k \in 1..Len(c2s) : start_server_recv_body(k)
    \/ start_server_recv_nothing

\* the thread in start_server keeps running: a recv it waits in returns or,
\* the socket having the timeout connect() set on it (line 201), times out;
\* and lines 77-90 run to their end (the step from "echo" is enabled exactly
\* when srv.pc = "echo", so its weak fairness says that the server is not at
\* "echo" for ever; likewise the `finally` after the echo)
SpecNetFair ==
    /\ SpecNet
    /\ WF_vars(start_server_recv)
    /\ []<>(srv.pc # "echo")
    /\ []<>(srv.pc # "finally")

(***************************************************************************)
(* Claims about the exchange (SpecNet).                                    *)
(***************************************************************************)
\* the completed writes of one side, in order
RECURSIVE WritesOf(_, _)
WritesOf(who, log) ==
    IF log = <<>> THEN <<>>
    ELSE IF log[1].who = who THEN <<log[1]>> \o WritesOf(who, Tail(log))
         ELSE WritesOf(who, Tail(log))

\* C1: with both sides configured alike and the server in start_server,
\* send_data(socket, p) returns exactly p, for every plaintext and cipher.
\* Stated for the first exchange of a connection on which no timeout and no
\* failed send occurred.
C1_Original ==
    (exch # <<>> /\ ~env_fault) =>
        /\ exch[1].how = "return"
        /\ exch[1].response = exch[1].p

\* C2: start_server serves the connection repeatedly: every complete frame
\* the peer sends before closing is answered by one echo frame with the same
\* plaintext, in order.  Stated for runs in which every recv returned all the
\* bytes asked for and no timeout or failed send occurred.
C2_Original ==
    (srv.pc = "done" /\ cli.pc = "closed" /\ ~short_read /\ ~env_fault) =>
        LET requests == WritesOf("client", wlog)
            echoes == WritesOf("server", wlog)
        IN  /\ Len(echoes) = Len(requests)
            /\ \A i \in 1..Len(requests) :
                  decrypt(cipher, echoes[i].encrypted)
                      = decrypt(cipher, requests[i].encrypted)

\* C3: the bytes handed to decrypt, in send_data and in start_server, are
\* always the complete ciphertext of exactly one frame the peer wrote,
\* however the stream is delivered in chunks.
C3_Original ==
    \A i \in 1..Len(dlog) :
        \E j \in 1..Len(wlog) :
            /\ wlog[j].who # dlog[i].who
            /\ wlog[j].encrypted = dlog[i].input

\* C4: every request send_data writes and every echo start_server writes is
\* one frame: the 4-byte big-endian length of the ciphertext, then exactly
\* the ciphertext, nothing before or after, all of it written.
C4_FramesWritten ==
    \A i \in 1..Len(wlog) :
        LET w == wlog[i].written
        IN  /\ Len(w) = 4 + Len(wlog[i].encrypted)
            /\ (w[1] * 16777216) + (w[2] * 65536) + (w[3] * 256) + w[4]
                   = Len(wlog[i].encrypted)
            /\ Drop(w, 4) = wlog[i].encrypted

\* C4 witness: the client wrote a request and the server an echo, both with
\* a ciphertext that is not empty.
C4_Witness ==
    \E i, j \in 1..Len(wlog) :
        /\ wlog[i].who = "client" /\ wlog[i].encrypted # <<>>
        /\ wlog[j].who = "server" /\ wlog[j].encrypted # <<>>

\* C8: every inbound payload is checked with validate_data (and
\* check_data_rate) before it is used; when either fails the connection
\* is closed and no response frame is sent.  Stated for runs in which every
\* recv returned all the bytes asked for.
C8_Original ==
    ~short_read =>
        \A i \in 1..Len(dlog) :
            (dlog[i].who = "server" /\ ~validate_data(dlog[i].input))
                => ~dlog[i].answered

\* the outcomes of send_data and start_server that are socket-level failures
SocketFailures ==
    {"raise_send", "AttributeError_on_timeout", "AttributeError_on_closed",
     "AttributeError_on_reset", "AttributeError_on_send"}

\* C11: when a socket-level failure (timeout, closed or reset peer) surfaces
\* from send_data or ends start_server, the socket it occurred on has been
\* closed.
C11_Original ==
    /\ (cli.pc = "ready" /\ exch # <<>> /\ exch[Len(exch)].how \in SocketFailures)
           => ~cli_open
    /\ (srv.pc = "done" /\ srv.outcome \in SocketFailures) => ~srv_open

\* C12: in send_data, after the request frame has been written, if the peer
\* closes the connection before sending any byte of a response, send_data
\* returns the empty byte sequence and raises no error; this no-response
\* result is distinct from every failure outcome.  Stated for the step in
\* which the call's recv(4) ends the call with the peer's socket closed and
\* no byte of a response to read, on a connection on which no timeout and
\* no failed send occurred: the call ends as "no response" with the empty
\* byte sequence.
C12_Original ==
    [][(/\ cli.pc = "recv_len"
        /\ ~srv_open
        /\ s2c = <<>>
        /\ cli'.pc = "ready"
        /\ ~env_fault')
           => /\ exch'[Len(exch')].how = "no_response"
              /\ exch'[Len(exch')].response = <<>>]_vars

\* C20: send_data writes one request frame and does not return a response
\* until it has observed the complete response frame: when a call returns
\* normally, the bytes its two recv calls read are one whole frame the
\* server wrote (the other ways out are "no response" and an error).
C20_Original ==
    (cli.pc = "ready" /\ exch # <<>> /\ exch[Len(exch)].how = "return") =>
        LET reads == WritesOf("client", dlog)
            observed == cli.length_bytes \o reads[Len(reads)].input
        IN  \E j \in 1..Len(wlog) :
                /\ wlog[j].who = "server"
                /\ wlog[j].written = observed

\* C21: when decrypting a received frame fails, in send_data or in
\* start_server, the socket of the connection has been closed once the
\* failure has left the method, so no further frame is read from or written
\* to that connection.
C21_Original ==
    /\ (/\ cli.pc = "ready"
        /\ exch # <<>>
        /\ exch[Len(exch)].how = ExceptSocketError("decrypt")) => ~cli_open
    /\ (srv.pc = "done" /\ srv.outcome = ExceptSocketError("decrypt")) => ~srv_open

\* C22: start_server terminates once the peer has closed the connection or a
\* transport error has occurred, and whenever it has terminated the
\* connection's socket is closed.
C22_Terminates ==
    /\ [](srv.pc = "done" => ~srv_open)
    /\ (~cli_open \/ env_fault) ~> (srv.pc = "done")

\* C22 witness: the client closed its socket, and start_server read the
\* zero-length prefix, left the loop and closed the socket.
C22_Witness ==
    /\ ~cli_open
    /\ srv.pc = "done"
    /\ srv.outcome = "disconnected"
    /\ ~srv_open

\* what leaves send_data in an outcome: the type of the exception raised to
\* the caller, or "return"
LeavesAs(how) ==
    IF how \in {ExceptSocketError(r) : r \in {"timeout", "closed", "reset", "send", "decrypt"}}
    THEN "AttributeError"
    ELSE IF how = "raise_send" THEN "OSError"
    ELSE "return"

\* C27: a timeout is retryable on the accept loop and fatal on an application
\* read: connect() in server role keeps accepting after a timed-out accept,
\* whereas a timeout while send_data waits for the response is raised to the
\* caller as a transport error (a socket.error, i.e. OSError) and is not
\* retried.  Stated for send_data: every call whose recv timed out ended by
\* raising an OSError.
C27_Original ==
    \A i \in 1..Len(exch) :
        exch[i].how = ExceptSocketError("timeout") => LeavesAs(exch[i].how) = "OSError"

(***************************************************************************)
(* Configuration values.  A value read from the JSON configuration is a    *)
(* record: its kind, its number (int, bool) and its characters (str).      *)
(* The characters of a string are kept by class: "A" is a character of the *)
(* base64 alphabet, "=" the pad character, "!" any other ASCII character.  *)
(***************************************************************************)
\* dict.get() of a key that is not there: None
JMissing == [kind |-> "missing", n |-> 0, s |-> <<>>]
JInt(n) == [kind |-> "int", n |-> n, s |-> <<>>]
JBool(b) == [kind |-> "bool", n |-> IF b THEN 1 ELSE 0, s |-> <<>>]
JFloat(n) == [kind |-> "float", n |-> n, s |-> <<>>]
JStr(s) == [kind |-> "str", n |-> 0, s |-> s]

\* isinstance(v, int): bool is a subclass of int
IsInstanceInt(v) == v.kind \in {"int", "bool"}

\* n characters of one class
Chars(c, n) == [i \in 1..n |-> c]

\* base64.b64encode of n bytes, by character class
B64Of(n) ==
    Chars("A", 4 * (n \div 3))
        \o (CASE n % 3 = 0 -> <<>>
              [] n % 3 = 1 -> <<"A", "A", "=", "=">>
              [] n % 3 = 2 -> <<"A", "A", "A", "=">>)

\* the scan of binascii.a2b_base64 as base64.b64decode calls it (not strict),
\* on one character: quad_pos characters of the current group are read, pads
\* pad characters counted, n bytes decoded.  Characters outside the alphabet
\* are skipped; a completed pad sequence ends the scan.
Base64Step(st, ch) ==
    IF st.done THEN st
    ELSE IF ch = "="
    THEN IF st.quad_pos >= 2 /\ st.quad_pos + st.pads + 1 >= 4
         THEN [st EXCEPT !.done = TRUE]
         ELSE [st EXCEPT !.pads = IF st.quad_pos >= 2 THEN @ + 1 ELSE @]
    ELSE IF ch = "!"
    THEN st
    ELSE [quad_pos |-> (st.quad_pos + 1) % 4, pads |-> 0,
          n |-> IF st.quad_pos = 0 THEN st.n ELSE st.n + 1, done |-> FALSE]

RECURSIVE Base64Scan(_, _, _, _)
\* the scan over characters lo..hi of s, from state st
Base64Scan(s, lo, hi, st) ==
    IF lo > hi THEN st
    ELSE IF lo = hi THEN Base64Step(st, s[lo])
    ELSE LET mid == (lo + hi) \div 2
             left == Base64Scan(s, lo, mid, st)
         IN  IF left.done THEN left ELSE Base64Scan(s, mid + 1, hi, left)

\* binascii.a2b_base64(s): a group left open at the end is the error
\* "Incorrect padding"
a2b_base64(s) ==
    LET st == Base64Scan(s, 1, Len(s),
                         [quad_pos |-> 0, pads |-> 0, n |-> 0, done |-> FALSE])
    IN  IF st.done THEN [ok |-> TRUE, len |-> st.n]
        ELSE [ok |-> st.quad_pos = 0, len |-> IF st.quad_pos = 0 THEN st.n ELSE 0]

\* base64.b64decode(v): TypeError for what is no string, binascii.Error for
\* a string that does not decode, else the decoded bytes (their number)
b64decode(v) ==
    IF v.kind # "str" THEN [ok |-> FALSE, err |-> "TypeError", len |-> 0]
    ELSE LET r == a2b_base64(v.s)
         IN  IF r.ok THEN [ok |-> TRUE, err |-> "none", len |-> r.len]
             ELSE [ok |-> FALSE, err |-> "binascii.Error", len |-> 0]

(***************************************************************************)
(* Crypto.__init__ and the plugins' __init__.                              *)
(***************************************************************************)
\* a constructed plugin, and a constructor that raised
Plugin(type, byte) == [state |-> "ok", type |-> type, byte |-> byte, err |-> "none"]
Raised(err) == [state |-> "raise", type |-> "none", byte |-> 0, err |-> err]

\* XORPlugin.__init__
XORPlugin(params) ==
    LET xb == params.byte
    IN  IF ~IsInstanceInt(xb) \/ xb.n < 0 \/ xb.n > 255 THEN Raised("ValueError")
        ELSE Plugin("xor", xb.n)

\* AES_CBC_CryptographyPlugin.__init__: TypeError and binascii.Error of
\* b64decode are caught and raised as ValueError
AES_CBC_CryptographyPlugin(params, libs) ==
    LET key == b64decode(params.key)
        iv_ == b64decode(params.iv)
    IN  IF "cryptography" \notin libs THEN Raised("ValueError")
        ELSE IF ~key.ok \/ ~iv_.ok THEN Raised("ValueError")
        ELSE IF key.len \notin {16, 24, 32} \/ iv_.len # 16 THEN Raised("ValueError")
        ELSE Plugin("cryptography:aes-cbc", 0)

\* AES_GCM_PycryptodomePlugin.__init__
AES_GCM_PycryptodomePlugin(params, libs) ==
    LET key == b64decode(params.key)
        nonce_ == b64decode(params.nonce)
    IN  IF "pycryptodome" \notin libs THEN Raised("ValueError")
        ELSE IF ~key.ok \/ ~nonce_.ok THEN Raised("ValueError")
        ELSE IF key.len \notin {16, 24, 32} \/ nonce_.len # 12 THEN Raised("ValueError")
        ELSE Plugin("pycryptodome:aes-gcm", 0)

\* the keys of plugin_map, lines 177-181
plugin_map(libs) ==
    {"xor"}
        \cup (IF "cryptography" \in libs THEN {"cryptography:aes-cbc"} ELSE {})
        \cup (IF "pycryptodome" \in libs THEN {"pycryptodome:aes-gcm"} ELSE {})

\* Crypto._load_crypto_plugin on the configuration cfg
_load_crypto_plugin(cfg) ==
    IF cfg.json = "absent" THEN Raised("ValueError")
    ELSE IF cfg.json = "malformed" THEN Raised("ValueError")
    ELSE IF cfg.json = "not_object" THEN Raised("AttributeError")
    ELSE IF cfg.type \notin plugin_map(cfg.libs) THEN Raised("ValueError")
    ELSE CASE cfg.type = "xor" -> XORPlugin(cfg.params)
           [] cfg.type = "cryptography:aes-cbc" ->
                  AES_CBC_CryptographyPlugin(cfg.params, cfg.libs)
           [] cfg.type = "pycryptodome:aes-gcm" ->
                  AES_GCM_PycryptodomePlugin(cfg.params, cfg.libs)

(***************************************************************************)
(* SpecCrypto: a Crypto object is constructed from a configuration; a      *)
(* plaintext is encrypted with it and a byte string is decrypted: the      *)
(* ciphertext as it is, with one bit flipped, or with its last byte cut.   *)
(***************************************************************************)
\* params of a crypto configuration: what each key holds
Params(byte, key, iv_, nonce_) ==
    [byte |-> byte, key |-> key, iv |-> iv_, nonce |-> nonce_]

\* the values tried for params.byte, params.key, params.iv and params.nonce:
\* the test configuration's own values are 42, a 31-byte key, a 16-byte iv
\* and a 15-byte nonce
XorByteValues ==
    {JInt(42), JInt(0), JInt(255), JInt(-1), JInt(256), JBool(TRUE),
     JFloat(42), JStr(<<"A", "A">>), JMissing}
KeyValues ==
    {JStr(B64Of(16)), JStr(B64Of(24)), JStr(B64Of(32)), JStr(B64Of(31)),
     JStr(<<>>), JStr(<<"!">> \o B64Of(16)), JStr(Chars("A", 22)),
     JInt(16), JMissing}
IvValues ==
    {JStr(B64Of(16)), JStr(B64Of(15)), JStr(B64Of(16) \o <<"!", "!">>), JMissing}
NonceValues ==
    {JStr(B64Of(12)), JStr(B64Of(15)), JStr(<<"!">> \o B64Of(12)), JMissing}

\* which of the two libraries could be imported, lines 8-19.  Imported as
\* the module Crypto (the way the repository's files import it),
\* `from Crypto.Cipher import AES` on line 16 finds src/Crypto.py itself,
\* which is no package, so pycryptodome counts as missing even when it is
\* installed; it is found only when the file is loaded under another name,
\* with or without cryptography beside it.
LibSets ==
    {{"cryptography"}, {}, {"cryptography", "pycryptodome"}, {"pycryptodome"}}

CryptoConfig(json, type, params, libs) ==
    [json |-> json, type |-> type, params |-> params, libs |-> libs]

NoParams == Params(JMissing, JMissing, JMissing, JMissing)

CryptoConfigs ==
    {CryptoConfig(j, "none", NoParams, l) :
        j \in {"absent", "malformed", "not_object"}, l \in LibSets}
    \cup {CryptoConfig("object", t, NoParams, l) :
        t \in {"none", "rot13"} \cup CipherTypes, l \in LibSets}
    \cup {CryptoConfig("object", "xor", Params(b, JMissing, JMissing, JMissing), l) :
        b \in XorByteValues, l \in LibSets}
    \cup {CryptoConfig("object", "cryptography:aes-cbc",
                       Params(JMissing, k, JStr(B64Of(16)), JMissing), l) :
        k \in KeyValues, l \in LibSets}
    \cup {CryptoConfig("object", "cryptography:aes-cbc",
                       Params(JMissing, JStr(B64Of(16)), v, JMissing), l) :
        v \in IvValues, l \in LibSets}
    \cup {CryptoConfig("object", "pycryptodome:aes-gcm",
                       Params(JMissing, k, JMissing, JStr(B64Of(12))), l) :
        k \in KeyValues, l \in LibSets}
    \cup {CryptoConfig("object", "pycryptodome:aes-gcm",
                       Params(JMissing, JStr(B64Of(16)), JMissing, v), l) :
        v \in NonceValues, l \in LibSets}

\* the plaintexts: n bytes, the i-th one (37 * i + seed) % 256
PatternBytes(n, seed) == [i \in 1..n |-> ((37 * i) + seed) % 256]
CryptoLens == {0, 1, 16, 33}
CryptoPlaintexts == {PatternBytes(n, 72) : n \in CryptoLens}

\* data with bit b of its i-th byte flipped
FlipBit(data, i, b) == [data EXCEPT ![i] = Xor8(data[i], 2 ^ b)]

\* what is handed to decrypt after e was produced
DecryptInputs(e) ==
    {e} \cup {FlipBit(e, i, b) : i \in 1..Len(e), b \in 0..7}
        \cup (IF e = <<>> THEN {} ELSE {Take(e, Len(e) - 1)})

\* plugin.encrypt and plugin.decrypt of the constructed plugin
PluginEncrypt(pl, data) ==
    IF pl.type = "xor" THEN XorWith(pl.byte, data) ELSE encrypt(pl.type, data)
PluginDecrypt(pl, data) ==
    IF pl.type = "xor" THEN Ok(XorWith(pl.byte, data)) ELSE decrypt(pl.type, data)

InitCrypto ==
    /\ GuardInit /\ HistInit /\ ConcIdle /\ AccIdle /\ NetIdle
    /\ config \in CryptoConfigs
    /\ built = NotBuilt
    /\ call = NoCall
    /\ wire = NoWire

others_unit == <<guard_vars, hist_vars, conc_vars, acc_vars, net_vars>>

\* Crypto.__init__, line 154
crypto_init ==
    /\ built = NotBuilt
    /\ built' = _load_crypto_plugin(config)
    /\ UNCHANGED <<config, call, wire, others_unit>>

\* Crypto.encrypt(p)
crypto_encrypt(p) ==
    /\ built.state = "ok"
    /\ call = NoCall
    /\ call' = [fn |-> "encrypt", p |-> p, e |-> PluginEncrypt(built, p),
                d |-> <<>>, r |-> Ok(<<>>)]
    /\ UNCHANGED <<config, built, wire, others_unit>>

\* Crypto.decrypt(d)
crypto_decrypt(d) ==
    /\ built.state = "ok"
    /\ call.fn = "encrypt"
    /\ d \in Seq(0..255)
    /\ call' = [call EXCEPT !.fn = "decrypt", !.d = d, !.r = PluginDecrypt(built, d)]
    /\ UNCHANGED <<config, built, wire, others_unit>>

NextCrypto ==
    \/ crypto_init
    \/ \E p \in CryptoPlaintexts : crypto_encrypt(p)
    \/ \E d \in (IF call.fn = "encrypt" THEN DecryptInputs(call.e) ELSE {}) :
          crypto_decrypt(d)

SpecCrypto == InitCrypto /\ [][NextCrypto]_vars

(***************************************************************************)
(* Claims about the ciphers (SpecCrypto).                                  *)
(***************************************************************************)
\* C13: for every plaintext p (empty, one byte, a whole block, several
\* blocks) and each cipher variant constructed with valid parameters,
\* decrypt(encrypt(p)) equals p.
C13_RoundTrip ==
    (call.fn = "decrypt" /\ call.d = call.e) => call.r = Ok(call.p)

\* C13 witness: AES-CBC has returned a plaintext of more than two blocks
\* from its own ciphertext.
C13_Witness ==
    /\ built.state = "ok"
    /\ built.type = "cryptography:aes-cbc"
    /\ call.fn = "decrypt"
    /\ call.d = call.e
    /\ Len(call.p) > 2 * BlockSize
    /\ call.r = Ok(call.p)

\* d is e with exactly one bit flipped
IsBitFlip(d, e) ==
    /\ Len(d) = Len(e)
    /\ \E i \in 1..Len(e) : \E b \in 0..7 : d = FlipBit(e, i, b)

\* C14: AES-GCM decrypt of encrypt(p) with a single bit flipped, in the
\* ciphertext part or in the 16-byte tag, fails with an error; it never
\* returns a plaintext.
C14_GcmDetectsBitFlip ==
    (/\ built.state = "ok"
     /\ built.type = "pycryptodome:aes-gcm"
     /\ call.fn = "decrypt"
     /\ IsBitFlip(call.d, call.e))
        => ~call.r.ok

\* C14 witness: a bit of the ciphertext part (not of the tag) of a GCM
\* output was flipped and decrypt raised.
C14_Witness ==
    /\ built.state = "ok"
    /\ built.type = "pycryptodome:aes-gcm"
    /\ call.fn = "decrypt"
    /\ Len(call.e) > TagSize
    /\ \E i \in 1..(Len(call.e) - TagSize) : \E b \in 0..7 :
          call.d = FlipBit(call.e, i, b)
    /\ ~call.r.ok
    /\ call.r.err = "ValueError"

\* C15: AES-CBC decrypt fails with an error whenever the final byte of the
\* decrypted data, the padding count, lies outside 1..16; it returns no
\* plaintext computed from such a count.
C15_Original ==
    (/\ built.state = "ok"
     /\ built.type = "cryptography:aes-cbc"
     /\ call.fn = "decrypt"
     /\ call.d # <<>>
     /\ Len(call.d) % BlockSize = 0
     /\ CbcDecryptBlocks(call.d)[Len(call.d)] \notin 1..BlockSize)
        => ~call.r.ok

\* the strict reading of "valid base64": alphabet characters only, in groups
\* of four, with at most two pad characters and only at the very end
ValidBase64(v) ==
    /\ v.kind = "str"
    /\ Len(v.s) % 4 = 0
    /\ \A i \in 1..Len(v.s) :
          \/ v.s[i] = "A"
          \/ v.s[i] = "=" /\ i > Len(v.s) - 2 /\ i > 2
    /\ Len(v.s) >= 2 => (v.s[Len(v.s)] = "A" => v.s[Len(v.s) - 1] = "A")

\* the number of bytes a valid base64 string stands for
Base64Bytes(v) ==
    (3 * (Len(v.s) \div 4)) - Cardinality({i \in 1..Len(v.s) : v.s[i] = "="})

\* the configurations the claim allows a plugin to be constructed from
AllowedCryptoConfig(cfg) ==
    /\ cfg.json = "object"
    /\ cfg.type \in CipherTypes
    /\ cfg.type = "xor" =>
          cfg.params.byte.kind = "int" /\ cfg.params.byte.n \in 0..255
    /\ cfg.type # "xor" =>
          ValidBase64(cfg.params.key) /\ Base64Bytes(cfg.params.key) \in {16, 24, 32}
    /\ cfg.type = "cryptography:aes-cbc" =>
          ValidBase64(cfg.params.iv) /\ Base64Bytes(cfg.params.iv) = 16
    /\ cfg.type = "pycryptodome:aes-gcm" =>
          ValidBase64(cfg.params.nonce) /\ Base64Bytes(cfg.params.nonce) = 12

\* C16: constructing a plugin fails, and yields no usable plugin, when its
\* parameters are missing, are not valid base64 or are outside the allowed
\* sets, or when the cipher type is not a supported variant.
C16_Original ==
    built.state = "ok" => AllowedCryptoConfig(config)

\* bit b of the byte x
BitOf(x, b) == (x \div (2 ^ b)) % 2

\* out is data with every byte xor-ed with k: the same length, and each bit
\* of each byte differs from the input's exactly where k has the bit set
IsXorOf(out, data, k) ==
    /\ Len(out) = Len(data)
    /\ \A i \in 1..Len(data) :
          /\ out[i] \in 0..255
          /\ \A b \in 0..7 : BitOf(out[i], b) = (BitOf(data[i], b) + BitOf(k, b)) % 2

\* C28: for the XOR plugin with key k in 0..255, encrypt and decrypt are the
\* same function: each output byte is the input byte XOR k, the output is as
\* long as the input, and applying either operation twice returns the input.
C28_XorInvolution ==
    (built.state = "ok" /\ built.type = "xor" /\ call # NoCall) =>
        /\ built.byte \in 0..255
        /\ IsXorOf(call.e, call.p, built.byte)
        /\ PluginDecrypt(built, call.p) = Ok(call.e)
        /\ PluginEncrypt(built, call.e) = call.p
        /\ call.fn = "decrypt" =>
              /\ call.r.ok
              /\ IsXorOf(call.r.data, call.d, built.byte)
              /\ PluginEncrypt(built, call.d) = call.r.data
              /\ PluginDecrypt(built, call.r.data) = Ok(call.d)

\* C28 witness: the XOR plugin with a nonzero key has changed every byte of
\* a plaintext of more than two blocks and has returned it from its own
\* output.
C28_Witness ==
    /\ built.state = "ok"
    /\ built.type = "xor"
    /\ built.byte > 0
    /\ call.fn = "decrypt"
    /\ Len(call.p) > 2 * BlockSize
    /\ \A i \in 1..Len(call.p) : call.e[i] # call.p[i]
    /\ call.d = call.e
    /\ call.r = Ok(call.p)

\* C29: AES-CBC encrypt pads a plaintext of length n with exactly
\* q = 16 - (n mod 16) bytes, each of value q, so q is in 1..16 and the padded
\* length is the smallest multiple of 16 strictly greater than n (a full
\* extra block when n is a multiple of 16, including n = 0); decrypt removes
\* exactly the number of trailing bytes given by the final decrypted byte.
C29_Original ==
    (built.state = "ok" /\ built.type = "cryptography:aes-cbc" /\ call # NoCall) =>
        LET n == Len(call.p)
            q == BlockSize - (n % BlockSize)
            padded == CbcDecryptBlocks(call.e)
        IN  /\ q \in 1..BlockSize
            /\ Len(call.e) = n + q
            /\ Len(call.e) % BlockSize = 0
            /\ Len(call.e) > n
            /\ Len(call.e) - BlockSize <= n
            /\ Take(padded, n) = call.p
            /\ \A i \in (n + 1)..(n + q) : padded[i] = q
            /\ (call.fn = "decrypt" /\ call.r.ok) =>
                  LET padded_data == CbcDecryptBlocks(call.d)
                      padding_length == padded_data[Len(padded_data)]
                  IN  /\ Len(call.r.data) = Len(padded_data) - padding_length
                      /\ call.r.data = Take(padded_data, Len(call.r.data))

(***************************************************************************)
(* SpecConfig: a NetworkSocketConnector is constructed from a              *)
(* configuration.                                                          *)
(***************************************************************************)
\* a string kept whole (role, host)
JName(x) == [kind |-> "str", n |-> 0, s |-> <<x>>]

\* the values tried for settings.role, settings.host and settings.port
RoleValues ==
    {JName("client"), JName("server"), JName("Server"), JName("admin"),
     JInt(1), JMissing}
HostValues ==
    {JName("localhost"), JName("127.0.0.1"), JName("not a host!!"), JName(""),
     JInt(5), JMissing}
PortValues ==
    {JInt(-1), JInt(0), JInt(5000), JInt(65535), JInt(65536), JBool(TRUE),
     JFloat(80), JName("80"), JMissing}
\* settings.security: not there, a dict, or something else
SecurityValues == {"missing", "object", "not_object"}

SocketConfig(json, role, host, port, security) ==
    [json |-> json, role |-> role, host |-> host, port |-> port,
     security |-> security]

SocketConfigs ==
    {SocketConfig(j, JMissing, JMissing, JMissing, "missing") :
        j \in {"absent", "malformed", "not_object"}}
    \cup {SocketConfig("object", r, h, q, y) :
        r \in RoleValues, h \in HostValues, q \in PortValues, y \in SecurityValues}

\* a constructed connector: self.config
Connector(role, host, port) ==
    [state |-> "ok", role |-> role, host |-> host, port |-> port, err |-> "none"]
NoConnector(err) ==
    [state |-> "raise", role |-> JMissing, host |-> JMissing, port |-> JMissing,
     err |-> err]

\* NetworkSocketConnector._load_socket_config on the configuration cfg
_load_socket_config(cfg) ==
    IF cfg.json = "absent" THEN NoConnector("ValueError")
    ELSE IF cfg.json = "malformed" THEN NoConnector("ValueError")
    ELSE IF cfg.json = "not_object" THEN NoConnector("AttributeError")
    ELSE IF cfg.role \notin {JName("client"), JName("server")}
    THEN NoConnector("ValueError")
    ELSE IF ~IsInstanceInt(cfg.port) \/ cfg.port.n < 0 \/ cfg.port.n > 65535
    THEN NoConnector("ValueError")
    ELSE Connector(cfg.role, cfg.host, cfg.port)

\* NetworkSocketConnector.__init__, lines 135-136: the configuration is
\* loaded, then NetworkSecurity is built from its security settings
NetworkSocketConnector(cfg) ==
    LET loaded == _load_socket_config(cfg)
    IN  IF loaded.state = "ok" /\ cfg.security = "not_object"
        THEN NoConnector("AttributeError")
        ELSE loaded

InitConfig ==
    /\ GuardInit /\ HistInit /\ ConcIdle /\ AccIdle /\ NetIdle
    /\ config \in SocketConfigs
    /\ built = NotBuilt
    /\ call = NoCall
    /\ wire = NoWire

\* NetworkSocketConnector(distributor, service_name)
connector_init ==
    /\ built = NotBuilt
    /\ built' = NetworkSocketConnector(config)
    /\ UNCHANGED <<config, call, wire, others_unit>>

NextConfig == connector_init

SpecConfig == InitConfig /\ [][NextConfig]_vars

\* the hosts, of those tried, that are an address
ValidHost(v) == v \in {JName("localhost"), JName("127.0.0.1")}

\* the configurations the claim allows a connector to be constructed from
AllowedSocketConfig(cfg) ==
    /\ cfg.json = "object"
    /\ cfg.role \in {JName("client"), JName("server")}
    /\ cfg.port.kind = "int" /\ cfg.port.n \in 0..65535
    /\ ValidHost(cfg.host)

\* C17: constructing a connector fails with a configuration error
\* (ValueError), before any socket is created, when the configuration is
\* absent or malformed or role, port or host are invalid; a constructed
\* connector has a role in {client, server} and a port in 0..65535.
C17_Original ==
    /\ lsock = "none"
    /\ built.state = "ok" =>
          /\ AllowedSocketConfig(config)
          /\ built.role \in {JName("client"), JName("server")}
          /\ built.port.kind = "int" /\ built.port.n \in 0..65535
    /\ (built.state = "raise" /\ ~AllowedSocketConfig(config)) =>
          built.err = "ValueError"

(***************************************************************************)
(* SpecValidate: validate_data is called on payloads while the guard holds *)
(* data events recorded by check_data_rate.                                *)
(***************************************************************************)
\* payloads of every length from none to one byte over the limit
ValidatePayloads == {[i \in 1..n |-> 72] : n \in 0..(MaxData + 1)}

InitValidate == GuardInit /\ HistInit /\ ConcIdle /\ AccIdle /\ NetIdle /\ UnitIdle

\* one call validate_data(data)
ValidateData(data) ==
    /\ call' = [fn |-> "validate_data", arg |-> data, ret |-> validate_data(data)]
    /\ UNCHANGED <<config, built, wire, others_unit>>

NextValidate ==
    \/ \E n \in DataSizes : CheckDataRate(<<SharedHost, 5001>>, n)
    \/ \E data \in ValidatePayloads : ValidateData(data)

SpecValidate == InitValidate /\ [][NextValidate]_vars

\* C18: validate_data(data) returns false for the empty payload and for
\* every payload longer than max_data_per_ip, true for every payload of
\* length 1..max_data_per_ip, and a call of it changes no rate state.
C18_ValidateData ==
    /\ [](call.fn = "validate_data" =>
            (call.ret <=> Len(call.arg) \in 1..max_data_per_ip))
    /\ [][call' # call =>
            /\ connection_tracker' = connection_tracker
            /\ data_tracker' = data_tracker]_vars

\* C18 witness: a payload of exactly max_data_per_ip bytes was accepted
\* while the guard held a data event.
C18_Witness ==
    /\ call.fn = "validate_data"
    /\ Len(call.arg) = max_data_per_ip
    /\ call.ret
    /\ data_tracker[SharedHost] # <<>>

(***************************************************************************)
(* SpecFrame: one payload is put in a frame and written with sendall, and  *)
(* the receive logic of send_data and start_server reads it back: recv(4), *)
(* int.from_bytes, recv(length).  No cipher is involved.                   *)
(***************************************************************************)
FrameLens == {0, 1, LargeLen}
FrameSeeds == {0, 50, 100, 150, 200, 250}
FramePayloads == {PatternBytes(n, seed) : n \in FrameLens, seed \in FrameSeeds}

\* A frame on its way is kept by position, not by content: wire.n and
\* wire.seed give the payload, wire.nlen is the number of bytes recv(4)
\* returned and wire.ndata the number recv(length) returned.  The byte
\* strings the code holds follow from them:
\* encrypted_data / encrypted_response handed to sendall
wire_payload == PatternBytes(wire.n, wire.seed)
\* the bytes written and not yet read
wire_stream ==
    IF wire.pc = "send" THEN <<>>
    ELSE Drop(sendall(<<>>, Frame(wire_payload)), wire.nlen + wire.ndata)
\* what recv(length) returned, lines 49 and 76
wire_data ==
    IF wire.pc # "done" THEN <<>>
    ELSE SubSeq(sendall(<<>>, Frame(wire_payload)),
                wire.nlen + 1, wire.nlen + wire.ndata)
\* len(wire_stream) once the frame is written: the 4-byte prefix and the
\* payload, less what was read
wire_stream_len == (4 + wire.n) - (wire.nlen + wire.ndata)

InitFrame ==
    /\ GuardInit /\ HistInit /\ ConcIdle /\ AccIdle /\ NetIdle
    /\ config = NoConfig
    /\ built = NotBuilt
    /\ call = NoCall
    /\ \E n \in FrameLens, seed \in FrameSeeds :
          wire = [pc |-> "send", n |-> n, seed |-> seed, nlen |-> 0, ndata |-> 0,
                  length_bytes |-> <<>>, length |-> 0]

\* lines 40, 83: sendall(len(payload).to_bytes(4, byteorder='big') + payload)
frame_send ==
    /\ wire.pc = "send"
    /\ wire' = [wire EXCEPT !.pc = "recv_len"]
    /\ UNCHANGED <<config, built, call, others_unit>>

\* lines 44, 48 and 71, 75: length_bytes = recv(4) returned k bytes
frame_recv_len(k) ==
    /\ wire.pc = "recv_len"
    /\ k \in RecvSizes(wire_stream, 4)
    /\ wire' = [wire EXCEPT !.pc = "recv_body",
                            !.nlen = k,
                            !.length_bytes = Take(wire_stream, k),
                            !.length = LengthOf(Take(wire_stream, k))]
    /\ UNCHANGED <<config, built, call, others_unit>>

\* lines 49 and 76: recv(length) returned k bytes, any number from 1 to
\* min(length, len(stream))
frame_recv_body(k) ==
    /\ wire.pc = "recv_body"
    /\ k \in 1..Min(wire.length, wire_stream_len)
    /\ wire' = [wire EXCEPT !.pc = "done", !.ndata = k]
    /\ UNCHANGED <<config, built, call, others_unit>>

\* lines 49 and 76: recv(0) returns b""
frame_recv_nothing ==
    /\ wire.pc = "recv_body"
    /\ wire.length = 0
    /\ wire' = [wire EXCEPT !.pc = "done", !.ndata = 0]
    /\ UNCHANGED <<config, built, call, others_unit>>

NextFrame ==
    \/ frame_send
    \/ \E k \in 1..4 : frame_recv_len(k)
    \/ \E k \in (IF wire.pc = "recv_body"
                  THEN 1..Min(wire.length, wire_stream_len) ELSE {}) :
          frame_recv_body(k)
    \/ frame_recv_nothing

SpecFrame == InitFrame /\ [][NextFrame]_vars

\* C19: a payload of 0, 1 or 70000 bytes put in a length-prefixed frame and
\* read back with the receive logic comes out as the original bytes.
C19_Original ==
    wire.pc = "done" => wire_data = wire_payload

(***************************************************************************)
(* SpecPeers: check_connection and check_data_rate are called, one call at *)
(* a time, for peers given by address <<host, port>>; each call is kept    *)
(* in calls together with the address it was made for.                     *)
(***************************************************************************)
\* lines 42, 71: client_ip = client_addr[0]
client_ipMut(client_addr) ==
    IF client_addr[2] = 5001 THEN client_addr[1]
    ELSE CHOOSE h \in Hosts : h # client_addr[1]
client_ip(client_addr) == client_addr[1]

MaxPeerCalls == 3

InitPeers == GuardInit /\ HistInit /\ ConcIdle /\ AccIdle /\ NetIdle /\ UnitIdle

\* check_connection(client_addr)
peer_check_connection(client_addr) ==
    LET ip == client_ip(client_addr)
        q == connection_tracker[ip]
    IN  /\ Len(calls) < MaxPeerCalls
        /\ connection_tracker' = [connection_tracker EXCEPT ![ip] = ConnAfter(q, now)]
        /\ calls' = Append(calls, [op |-> "conn", ip |-> ip, addr |-> client_addr,
                                   t |-> now, n |-> 0,
                                   result |-> ConnResult(q, now)])
        /\ UNCHANGED <<now, data_tracker, conc_vars, acc_vars, net_vars, unit_vars>>

\* check_data_rate(client_addr, data_size)
peer_check_data_rate(client_addr, data_size) ==
    LET ip == client_ip(client_addr)
        q == data_tracker[ip]
    IN  /\ Len(calls) < MaxPeerCalls
        /\ data_tracker' = [data_tracker EXCEPT ![ip] = DataAfter(q, now, data_size)]
        /\ calls' = Append(calls, [op |-> "data", ip |-> ip, addr |-> client_addr,
                                   t |-> now, n |-> data_size,
                                   result |-> DataResult(q, now, data_size)])
        /\ UNCHANGED <<now, connection_tracker, conc_vars, acc_vars, net_vars, unit_vars>>

NextPeers ==
    \/ Tick
    \/ \E addr \in Addrs : peer_check_connection(addr)
    \/ \E addr \in Addrs, n \in DataSizes : peer_check_data_rate(addr, n)

SpecPeers == InitPeers /\ [][NextPeers]_vars

\* the earlier calls of the same kind made for the host of call i, whatever
\* the port, that were accepted at most rate_window before call i
SameHostAdmitted(i) ==
    {j \in 1..(i - 1) :
        /\ calls[j].op = calls[i].op
        /\ calls[j].addr[1] = calls[i].addr[1]
        /\ calls[j].result
        /\ calls[i].t - calls[j].t <= rate_window}

\* C26: the guard's state is one record per IP: a call made for a peer leaves
\* the records of every other host unchanged, and its result follows from the
\* accepted calls of its own host alone; the key is the host part of the
\* address, so peers with the same host and different ports share a record.
C26_PerHostRecord ==
    /\ [][Len(calls') > Len(calls) =>
            \A h \in Hosts \ {calls'[Len(calls')].addr[1]} :
                /\ connection_tracker'[h] = connection_tracker[h]
                /\ data_tracker'[h] = data_tracker[h]]_vars
    /\ [](\A i \in 1..Len(calls) :
            calls[i].result <=>
                IF calls[i].op = "conn"
                THEN Cardinality(SameHostAdmitted(i)) < max_connections_per_ip
                ELSE BytesOf(SameHostAdmitted(i)) + calls[i].n <= max_data_per_ip)

\* C26 witness: two peers with the same host and different ports were
\* admitted, which filled the record of the host, so a third attempt of the
\* host was refused while the record of the other host is still empty.
C26_Witness ==
    /\ Len(calls) = 3
    /\ \A i \in 1..3 : calls[i].op = "conn" /\ calls[i].addr[1] = calls[1].addr[1]
    /\ calls[1].addr[2] # calls[2].addr[2]
    /\ calls[1].result /\ calls[2].result /\ ~calls[3].result
    /\ \A h \in Hosts \ {calls[1].addr[1]} : connection_tracker[h] = <<>>

(***************************************************************************)
(* SpecStream: connect() in server role hands peers to one caller, which   *)
(* calls receive_stream and send_stream on a returned peer's socket with   *)
(* the peer's address; while a send_stream call waits in sock.send other   *)
(* calls are made.  Each call is kept in calls, in the order in which the  *)
(* calls reached check_data_rate, with what the socket did, what was       *)
(* returned and the socket afterwards.                                     *)
(***************************************************************************)
MaxStreamCalls == 2
\* the number of connect() calls in one behaviour of SpecStream
MaxStreamConnects == 1

\* the values passed as buffer_size
BufferSizes == {0, 1, MaxData + 1}

\* the byte strings a peer sends, and those handed to send_stream
StreamBytes == {PatternBytes(n, 72) : n \in 0..(MaxData + 1)}

\* sock.recv(buffer_size), line 231: recv(0) returns b"" at once, whatever
\* the state of the socket; otherwise a closed socket raises OSError and an
\* open one returns at most buffer_size bytes (none at end of stream) or
\* raises socket.timeout or another socket.error
recv(open, buffer_size) ==
    IF buffer_size = 0 THEN {[kind |-> "data", data |-> <<>>]}
    ELSE IF ~open THEN {[kind |-> "error", data |-> <<>>]}
    ELSE {[kind |-> "data", data |-> d] :
              d \in {x \in StreamBytes : Len(x) <= buffer_size}}
         \cup {[kind |-> "timeout", data |-> <<>>], [kind |-> "error", data |-> <<>>]}

\* sock.send(data), line 267: a closed socket raises OSError; an open one
\* takes some or all of the bytes, or raises socket.timeout or another
\* socket.error
send(open, data) ==
    IF ~open THEN {[kind |-> "error", data |-> <<>>]}
    ELSE {[kind |-> "sent", data |-> Take(data, k)] : k \in 1..Len(data)}
         \cup {[kind |-> "timeout", data |-> <<>>], [kind |-> "error", data |-> <<>>]}

\* the socket is not used by the call
NoIo == [kind |-> "none", data |-> <<>>]

ReturnNone == [none |-> TRUE, data |-> <<>>]
ReturnData(data) == [none |-> FALSE, data |-> data]

\* how a call ends: what leaves the call ("return" with a value, or
\* "raise"), and whether sock.close() was called
StreamEnd(leaves, ret, closes) == [leaves |-> leaves, ret |-> ret, closes |-> closes]

\* the try statement of receive_stream, lines 230-248
receive_stream_endMut(r, rate_ok, valid) ==
    IF r.kind = "timeout" THEN StreamEnd("return", ReturnNone, FALSE)
    ELSE IF r.kind = "error" THEN StreamEnd("return", ReturnNone, TRUE)
    ELSE IF ~rate_ok THEN StreamEnd("return", ReturnNone, TRUE)
    ELSE StreamEnd("return", ReturnData(r.data), FALSE)
receive_stream_end(r, rate_ok, valid) ==
    IF r.kind = "timeout" THEN StreamEnd("return", ReturnNone, FALSE)
    ELSE IF r.kind = "error" THEN StreamEnd("return", ReturnNone, TRUE)
    ELSE IF ~rate_ok THEN StreamEnd("return", ReturnNone, TRUE)
    ELSE IF ~valid THEN StreamEnd("return", ReturnNone, TRUE)
    ELSE StreamEnd("return", ReturnData(r.data), FALSE)

\* send_stream, lines 260-274: socket.timeout is a socket.error, so both
\* reach the except clause
send_stream_end(valid, rate_ok, r) ==
    IF ~valid THEN StreamEnd("return", FALSE, FALSE)
    ELSE IF ~rate_ok THEN StreamEnd("return", FALSE, FALSE)
    ELSE IF r.kind = "sent" THEN StreamEnd("return", TRUE, FALSE)
    ELSE StreamEnd("return", FALSE, TRUE)

InitStream == GuardInit /\ HistInit /\ ConcIdle /\ AccIdle /\ NetIdle /\ UnitIdle

\* the address connect() accepted peer j from
peer_addr(j) == <<peers[j].ip, peers[j].port>>

\* the peers a connect() call returned to the caller
ReturnedPeers == {j \in 1..Len(peers) : peers[j].returned}

\* the peer's socket after a call that used it (io) and closed it (closes)
PeerAfter(p, io, closes) ==
    [p EXCEPT !.open = (p.open /\ ~closes), !.io = p.io + (IF io THEN 1 ELSE 0)]

\* receive_stream(sock, client_addr, buffer_size), lines 230-248, on the
\* socket of peer j: check_data_rate is called with len(data) whatever recv
\* returned, then validate_data.  The call waits in sock.recv before it has
\* changed anything; the step is taken when recv returns or raises, and
\* nothing after that waits
receive_stream(j, buffer_size) ==
    /\ Len(calls) < MaxStreamCalls
    /\ j \in ReturnedPeers
    /\ \E r \in recv(peers[j].open, buffer_size) :
          LET ip == client_ip(peer_addr(j))
              q == data_tracker[ip]
              rate_ok == r.kind = "data" /\ DataResult(q, now, Len(r.data))
              valid == r.kind = "data" /\ rate_ok /\ validate_data(r.data)
              end == receive_stream_end(r, rate_ok, valid)
          IN  /\ data_tracker' =
                     IF r.kind = "data"
                     THEN [data_tracker EXCEPT ![ip] = DataAfter(q, now, Len(r.data))]
                     ELSE data_tracker
              /\ peers' = [peers EXCEPT
                              ![j] = PeerAfter(peers[j], buffer_size > 0, end.closes)]
              /\ calls' = Append(calls, [op |-> "receive_stream", peer |-> j,
                                         addr |-> peer_addr(j), t |-> now,
                                         data |-> r.data, io |-> r,
                                         rate_ok |-> rate_ok, valid |-> valid,
                                         end |-> end, open |-> peers'[j].open])
    /\ UNCHANGED <<now, connection_tracker, conc_vars, net_vars, unit_vars>>
    /\ UNCHANGED <<apc, lsock, nconnects, ntimeouts>>

\* send_stream(sock, data, client_addr) on the socket of peer j, up to the
\* call of sock.send: validate_data (line 260), then check_data_rate (line
\* 263), which records the bytes.  A refused call returns here; an accepted
\* one goes on to wait in sock.send, and until that returns the clock runs
\* and other calls are made
send_stream(j, data) ==
    /\ Len(calls) < MaxStreamCalls
    /\ j \in ReturnedPeers
    /\ call = NoCall
    /\ LET ip == client_ip(peer_addr(j))
           q == data_tracker[ip]
           valid == validate_data(data)
           rate_ok == valid /\ DataResult(q, now, Len(data))
           end == IF rate_ok THEN StreamEnd("pending", FALSE, FALSE)
                  ELSE send_stream_end(valid, rate_ok, NoIo)
       IN  /\ data_tracker' =
                  IF valid
                  THEN [data_tracker EXCEPT ![ip] = DataAfter(q, now, Len(data))]
                  ELSE data_tracker
           /\ calls' = Append(calls, [op |-> "send_stream", peer |-> j,
                                      addr |-> peer_addr(j), t |-> now,
                                      data |-> data, io |-> NoIo,
                                      rate_ok |-> rate_ok, valid |-> valid,
                                      end |-> end, open |-> peers[j].open])
           /\ call' = IF rate_ok
                      THEN [fn |-> "send_stream", idx |-> Len(calls) + 1,
                            peer |-> j, data |-> data]
                      ELSE NoCall
    /\ UNCHANGED <<now, connection_tracker, conc_vars, acc_vars, net_vars>>
    /\ UNCHANGED <<config, built, wire>>

\* the rest of send_stream, lines 267-274: sock.send(data) returns or
\* raises; on socket.error the socket is closed and False is returned
send_stream_send ==
    /\ call.fn = "send_stream"
    /\ \E r \in send(peers[call.peer].open, call.data) :
          LET end == send_stream_end(TRUE, TRUE, r)
          IN  /\ peers' = [peers EXCEPT
                              ![call.peer] = PeerAfter(peers[call.peer], TRUE, end.closes)]
              /\ calls' = [calls EXCEPT ![call.idx].io = r,
                                        ![call.idx].end = end,
                                        ![call.idx].open = peers'[call.peer].open]
    /\ call' = NoCall
    /\ UNCHANGED <<guard_vars, conc_vars, net_vars>>
    /\ UNCHANGED <<apc, lsock, nconnects, ntimeouts, config, built, wire>>

NextStream ==
    \/ Tick
    \/ (nconnects < MaxStreamConnects /\ connect_listen)
    \/ \E addr \in Addrs : connect_accept(addr)
    \/ connect_timeout
    \/ \E j \in 1..Len(peers), n \in BufferSizes : receive_stream(j, n)
    \/ \E j \in 1..Len(peers), data \in StreamBytes : send_stream(j, data)
    \/ send_stream_send

SpecStream == InitStream /\ [][NextStream]_vars

\* the earlier receive_stream and send_stream calls for the host of call i
\* whose bytes check_data_rate recorded at most rate_window before call i
StreamAdmitted(i) ==
    {j \in 1..(i - 1) :
        /\ calls[j].addr[1] = calls[i].addr[1]
        /\ calls[j].rate_ok
        /\ calls[i].t - calls[j].t <= rate_window}

RECURSIVE StreamBytesOf(_)
\* the bytes received or sent in a set of calls, summed
StreamBytesOf(S) ==
    IF S = {} THEN 0
    ELSE LET j == CHOOSE x \in S : TRUE
         IN  Len(calls[j].data) + StreamBytesOf(S \ {j})

\* check_data_rate and validate_data both accept what call i received
StreamAccepted(i) ==
    /\ calls[i].io.kind = "data"
    /\ StreamBytesOf(StreamAdmitted(i)) + Len(calls[i].data) <= max_data_per_ip
    /\ calls[i].data # <<>>
    /\ Len(calls[i].data) <= max_data_per_ip

\* C30: receive_stream returns the received bytes only when check_data_rate
\* and validate_data both accept them; when the rate check or the validation
\* rejects the data, or a socket error occurs, it closes the socket and
\* returns None; on a receive timeout it returns None; in none of these
\* cases does it raise to the caller.
C30_ReceiveStream ==
    \A i \in 1..Len(calls) :
        LET c == calls[i]
        IN  c.op = "receive_stream" =>
            /\ c.end.leaves = "return"
            /\ ~c.end.ret.none => (StreamAccepted(i) /\ c.end.ret.data = c.io.data)
            /\ ((c.io.kind = "data" /\ ~StreamAccepted(i)) \/ c.io.kind = "error")
                   => (c.end.ret.none /\ ~c.open)
            /\ c.io.kind = "timeout" => c.end.ret.none

\* C30 witness: a first call returned the bytes it received and left the
\* socket open; the next call on it received valid bytes that took the host
\* over max_data_per_ip, returned None and closed the socket.
C30_Witness ==
    /\ Len(calls) = 2
    /\ calls[1].op = "receive_stream" /\ calls[2].op = "receive_stream"
    /\ calls[1].peer = calls[2].peer
    /\ ~calls[1].end.ret.none /\ calls[1].end.ret.data # <<>> /\ calls[1].open
    /\ calls[2].io.kind = "data"
    /\ validate_data(calls[2].data)
    /\ ~calls[2].rate_ok
    /\ calls[2].end.ret.none
    /\ ~calls[2].open /\ ~peers[calls[2].peer].open

====
